---------------------------- MODULE Spec2Model ----------------------------
(***************************************************************************)
(* Request-dispatch engine of the RPC load balancer: provider pool         *)
(* (pkg/pool), retry handler with one gobreaker circuit breaker per        *)
(* provider (pkg/router/retry.go), HTTP handler (pkg/router/handler.go),   *)
(* response cache (router.CacheHandler) and the Redis state store.         *)
(*                                                                         *)
(* Time is not counted in seconds.  A deadline of the program (breaker     *)
(* Interval/Timeout, TTL of a Redis key) is a flag or an event: the        *)
(* environment decides when it has passed.  Only cache entries carry an    *)
(* expiry instant on the clock "now", because their TTL is configured per  *)
(* method.                                                                 *)
(***************************************************************************)
EXTENDS Integers, Sequences, FiniteSets, TLC

(***************************************************************************)
(* Bounds of the model                                                     *)
(***************************************************************************)
\* providers configured in the pool of the dispatch specification
NProv == 4
\* request goroutines (slots) of the model
NReq == 3
\* dispatch specification: requests served and environment events in one behaviour
MaxServed == 2
MaxEvents == 1
\* breaker specification: providers, requests served, deadlines passed
NBreakerProv == 3
MaxBreakerServed == 6
MaxBreakerEvents == 1
\* health specification
MaxHealthServed == 2
MaxHealthEvents == 2
\* cache specification
MaxCacheServed == 3
MaxCacheEvents == 1
MaxTime == 2
\* entry specification
MaxEntryServed == 3
\* feedback specification
MaxFeedbackServed == 2
MaxFeedbackEvents == 1
\* selection specification
MaxSelectServed == 1
MaxSelectEvents == 1
\* chaos specification
MaxChaosServed == 2
MaxChaosEvents == 3
\* probe specification
MaxProbeServed == 6
MaxProbeEvents == 2
\* table specification
MaxTableServed == 2
MaxTableEvents == 2
\* fairness specification: requests between two refills of the budget
MaxFairServed == 2
MaxFairEvents == 1
\* overlap specification
MaxOverlapServed == 3
MaxOverlapEvents == 1

(***************************************************************************)
(* Program constants                                                       *)
(***************************************************************************)
maxRetries == 3
InitialBackoff == 100
MaxRequests == 5
TripThreshold == 5
minLatencyInit == 999999

AllNames == <<"A", "B", "C", "D", "E", "F">>
ProviderNames == {AllNames[i] : i \in 1..6}
Reqs == 1..NReq

\* latency samples: "no key" or measured milliseconds
NoSample == -1
MeasuredMs == {0, 50}
DispatchMs == {50}

\* what an upstream does with one forwarded request
Upstream == {"result", "rpcerror", "http500"}

VARIABLES
    providers,      \* ProviderPool.providers (fixed at construction)
    current,        \* ProviderPool.current, the round-robin cursor
    redisUp,        \* the state store answers
    health,         \* Redis health:<name>  (snapshot or "none")
    latency,        \* Redis latency:<name> (ms or NoSample)
    cb,             \* RetryHandler.circuitBreakers
    forcedStates,   \* RetryHandler.forcedStates
    caching,        \* config.CachingConfig of the CacheHandler
    cache,          \* Redis rpc:cache:<method>:<hash> entries
    now,            \* clock the cache TTLs are measured on
    req,            \* one record per request goroutine
    log,            \* per request: what ExecuteWithRetry did (history)
    failRun,        \* per provider: failed forwards since the last success (history)
    lastStore,      \* per method and params: the last StoreResponse call (history)
    served,         \* requests the behaviour may still start
    events,         \* environment events the behaviour may still see
    mu,             \* ProviderPool.mu: the goroutine that holds it, or 0
    writing,        \* the writes of RetryHandler.forcedStates that are under way
    monitor,        \* HealthMonitor: its context, its ticker and its loop
    probes,         \* per provider: the checkProvider goroutines in flight
    lastCheck,      \* per provider: LastCheck of the snapshot last written
    answering       \* per provider: the upstream answers getHealth with a result

vars == <<providers, current, redisUp, health, latency, cb, forcedStates,
          caching, cache, now, req, log, failRun, lastStore, served, events,
          mu, writing, monitor, probes, lastCheck, answering>>

lockVars == <<mu, writing>>
monitorVars == <<monitor, probes, lastCheck, answering>>

budgetVars == <<served, events>>

poolVars == <<providers, current>>
storeVars == <<redisUp, health, latency>>
cacheVars == <<caching, cache, now, lastStore>>

Range(s) == {s[i] : i \in DOMAIN s}

(***************************************************************************)
(* gobreaker.CircuitBreaker as configured by NewRetryHandler               *)
(* generation is kept relative: a stored breaker has generation 0 and a    *)
(* step that opens new generations leaves the count in the field until the *)
(* step stores the breaker; requests in flight are then marked stale.      *)
(* Counts.Requests and Counts.ConsecutiveSuccesses are read in HalfOpen    *)
(* only and are kept there only.                                           *)
(***************************************************************************)
NewCircuitBreaker ==
    [state |-> "closed", requests |-> 0, consecutiveSuccesses |-> 0,
     consecutiveFailures |-> 0, expired |-> FALSE, generation |-> 0]

ReadyToTrip(b) == b.consecutiveFailures >= TripThreshold

toNewGeneration(b) ==
    [b EXCEPT !.generation = @ + 1, !.requests = 0, !.consecutiveSuccesses = 0,
              !.consecutiveFailures = 0, !.expired = FALSE]

setState(b, s) ==
    IF b.state = s THEN b ELSE toNewGeneration([b EXCEPT !.state = s])

currentState(b) ==
    CASE b.state = "closed" /\ b.expired -> toNewGeneration(b)
      [] b.state = "open" /\ b.expired -> setState(b, "half-open")
      [] OTHER -> b

\* mutant of beforeRequest: no state rejects
beforeRequestLetsThrough(b) ==
    LET c == currentState(b) IN
    [b |-> IF c.state = "half-open" THEN [c EXCEPT !.requests = @ + 1] ELSE c,
     err |-> "nil"]

\* beforeRequest: [b |-> breaker afterwards, err |-> "nil" or the rejection]
beforeRequest(b) ==
    LET c == currentState(b) IN
    IF c.state = "open" THEN [b |-> c, err |-> "ErrOpenState"]
    ELSE IF c.state = "half-open" /\ c.requests >= MaxRequests
         THEN [b |-> c, err |-> "ErrTooManyRequests"]
    ELSE [b |-> IF c.state = "half-open" THEN [c EXCEPT !.requests = @ + 1] ELSE c,
          err |-> "nil"]

\* mutant of onSuccess: the successes of half-open are not counted
onSuccessNotCounted(b) ==
    CASE b.state = "closed" -> [b EXCEPT !.consecutiveFailures = 0]
      [] OTHER -> b

onSuccess(b) ==
    CASE b.state = "closed" -> [b EXCEPT !.consecutiveFailures = 0]
      [] b.state = "half-open" ->
            LET c == [b EXCEPT !.consecutiveSuccesses = @ + 1, !.consecutiveFailures = 0] IN
            IF c.consecutiveSuccesses >= MaxRequests THEN setState(c, "closed") ELSE c
      [] OTHER -> b

\* mutant of onFailure: a failure in the closed state is not counted
onFailureNotCounted(b) ==
    CASE b.state = "half-open" -> setState(b, "open")
      [] OTHER -> b

onFailure(b) ==
    CASE b.state = "closed" ->
            LET c == [b EXCEPT !.consecutiveFailures = @ + 1] IN
            IF ReadyToTrip(c) THEN setState(c, "open") ELSE c
      [] b.state = "half-open" -> setState(b, "open")
      [] OTHER -> b

\* afterRequest(before, success): stale = the generation changed since beforeRequest
afterRequest(b, stale, success) ==
    LET c == currentState(b) IN
    IF stale \/ c.generation # 0 THEN c
    ELSE IF success THEN onSuccess(c) ELSE onFailure(c)

Stored(b) == [b EXCEPT !.generation = 0]


(***************************************************************************)
(* Redis state store as the pool reads it.  ok = the read is answered: the *)
(* store is up and the context of the calling request is not cancelled     *)
(* (go-redis returns the context's error before it sends a command).       *)
(***************************************************************************)
\* mutant of GetProviderStatus: a failed read reads as an unhealthy snapshot
GetProviderStatusFailClosed(name, ok) ==
    IF ~ok THEN "unhealthy"
    ELSE IF health[name] = "none" THEN "nil"
    ELSE health[name]

\* health.GetProviderStatus: "err", "nil" (redis.Nil), or the snapshot's flag
GetProviderStatus(name, ok) ==
    IF ~ok THEN "err"
    ELSE IF health[name] = "none" THEN "nil"
    ELSE health[name]

\* ProviderPool.GetLatency: [val, err]; err is TRUE on a failed read or a missing key
GetLatency(name, ok) ==
    IF ~ok \/ latency[name] = NoSample THEN [val |-> 0, err |-> TRUE]
    ELSE [val |-> latency[name], err |-> FALSE]

(***************************************************************************)
(* ProviderPool.Next, step by step                                         *)
(***************************************************************************)
\* mutant of IsHealthy: no provider is filtered out
IsHealthyAlways(name, ok) == TRUE

\* 1. filter healthy providers: errored or missing snapshot passes
IsHealthy(name, ok) ==
    LET status == GetProviderStatus(name, ok) IN
    status = "err" \/ status = "nil" \/ status = "healthy"

HealthyProviders(pool, ok) == SelectSeq(pool, LAMBDA name : IsHealthy(name, ok))

\* 4. fallback to round-robin: the only path that moves the cursor
RoundRobin(hp) ==
    IF Len(hp) = 0
    THEN [prov |-> "nil", err |-> "panic: integer divide by zero", current |-> current]
    ELSE [prov |-> hp[(current % Len(hp)) + 1], err |-> "nil",
          current |-> (current + 1) % Len(providers)]

(***************************************************************************)
(* ProviderPool.NextWithExclude, selection with an exclusion set E:        *)
(*   1. the candidates are the providers not in E whose snapshot is        *)
(*      missing, unreadable or healthy;                                    *)
(*   2. discovery: if a candidate lacks a latency sample, one such         *)
(*      candidate is returned, the round-robin cursor choosing among them; *)
(*   3. exploitation: otherwise the candidate with the smallest sample,    *)
(*      ties broken by the round-robin cursor;                             *)
(*   4. fallback: the round-robin cursor's next candidate;                 *)
(*   5. an empty candidate set is the error "no providers available".      *)
(* After a provider is returned the cursor advances modulo the size of the *)
(* candidate set.                                                          *)
(***************************************************************************)
Candidates(exclude, ok) ==
    SelectSeq(HealthyProviders(providers, ok), LAMBDA name : name \notin exclude)

\* Unmeasured: the candidates (by position) that lack a latency sample; a missing or
\* failed latency read is "no sample".  Smallest: the candidates with the smallest
\* sample.  CursorNext(idx): the round-robin cursor's next candidate among the
\* positions idx, the first of them at or after the cursor going round the set
NextWithExclude(exclude, ok) ==
    LET cands == Candidates(exclude, ok)
        n == Len(cands)
        Unmeasured == {i \in DOMAIN cands : GetLatency(cands[i], ok).err}
        Smallest == {i \in DOMAIN cands :
                        \A j \in DOMAIN cands :
                            GetLatency(cands[i], ok).val <= GetLatency(cands[j], ok).val}
        Ahead(i) == ((i - 1) + n - (current % n)) % n
        CursorNext(idx) == CHOOSE i \in idx : \A j \in idx : Ahead(i) <= Ahead(j)
        pick == IF Unmeasured # {} THEN CursorNext(Unmeasured)
                ELSE IF Smallest # {} THEN CursorNext(Smallest)
                ELSE CursorNext(DOMAIN cands)
    IN IF n = 0
       THEN [prov |-> "nil", err |-> "no providers available", current |-> current]
       ELSE [prov |-> cands[pick], err |-> "nil", current |-> (current + 1) % n]


(***************************************************************************)
(* JSON-RPC values, written as their JSON text.  A missing field of a       *)
(* request decodes to "" / "nil"; an RPCResponse has Result and Error      *)
(* "nil" when absent.                                                      *)
(***************************************************************************)
Methods == {"getSlot", "getBlock", "sendTransaction"}
ParamVals == {"nil", "[]", "[1]"}
\* JSON values are written as their JSON text
Ids == {"1", "2"}

RPCRequest(jsonrpc, id, method, params) ==
    [jsonrpc |-> jsonrpc, id |-> id, method |-> method, params |-> params]

NoResponse == [jsonrpc |-> "", id |-> "nil", result |-> "nil", error |-> "nil"]

\* the response an upstream sends: it echoes the id and carries a result or an error object
UpstreamResponse(kind, id) ==
    [jsonrpc |-> "2.0", id |-> id,
     result |-> IF kind = "result" THEN "100" ELSE "nil",
     error |-> IF kind = "rpcerror" THEN "{code:-32000}" ELSE "nil"]

\* mutant of ForwardRequest: a response with its error field set is an error
ForwardRequestStrict(kind, id) ==
    CASE kind = "ctxerr" -> [resp |-> NoResponse, err |-> "context canceled"]
      [] kind = "http500" -> [resp |-> NoResponse, err |-> "provider returned HTTP 500"]
      [] kind = "rpcerror" -> [resp |-> NoResponse, err |-> "rpc error"]
      [] OTHER -> [resp |-> UpstreamResponse(kind, id), err |-> "nil"]

\* BaseProvider.ForwardRequest for one upstream behaviour: [resp, err].
\* Only a transport failure, a non-200 status or an undecodable body is an error;
\* a decoded response with its error field set is returned with err = nil.
ForwardRequest(kind, id) ==
    CASE kind = "ctxerr" -> [resp |-> NoResponse, err |-> "context canceled"]
      [] kind = "http500" -> [resp |-> NoResponse, err |-> "provider returned HTTP 500"]
      [] OTHER -> [resp |-> UpstreamResponse(kind, id), err |-> "nil"]

(***************************************************************************)
(* router.CacheHandler                                                     *)
(***************************************************************************)
\* json.Marshal of req.Params: a nil slice is "null", an empty one "[]"
MarshalParams(params) == IF params = "nil" THEN "null" ELSE params

\* mutant of generateKey: the params are left out of the key
generateKeyMethodOnly(rq) == <<rq.method, "null">>

\* generateKey: method and the hash of the marshalled params (distinct params
\* are taken to hash to distinct values)
generateKey(rq) == <<rq.method, MarshalParams(rq.params)>>

CacheKeys == {<<m, MarshalParams(p)>> : m \in Methods, p \in ParamVals}

\* json.Marshal(resp): jsonrpc and id always, result and error under omitempty
Marshal(resp) ==
    LET always == {"jsonrpc", "id"}
        res == IF resp.result # "nil" THEN {"result"} ELSE {}
        er == IF resp.error # "nil" THEN {"error"} ELSE {}
    IN [f \in always \cup res \cup er |->
            CASE f = "jsonrpc" -> resp.jsonrpc
              [] f = "id" -> resp.id
              [] f = "result" -> resp.result
              [] OTHER -> resp.error]

\* json.Unmarshal into RPCResponse: an absent field stays nil
Unmarshal(obj) ==
    [jsonrpc |-> obj["jsonrpc"], id |-> obj["id"],
     result |-> IF "result" \in DOMAIN obj THEN obj["result"] ELSE "nil",
     error |-> IF "error" \in DOMAIN obj THEN obj["error"] ELSE "nil"]

NoEntry == [present |-> FALSE, val |-> Marshal(NoResponse), expireAt |-> 0]

\* Redis GET of a cache key: redis.Nil when the key was never set or its TTL has elapsed
RedisNil(key) == ~cache[key].present \/ now >= cache[key].expireAt

\* the method's configured TTL, 0 when the method is not in the table
MethodTTL(method) ==
    IF method \in DOMAIN caching.methods THEN caching.methods[method] ELSE 0

\* mutant of Cacheable: the TTL is not looked at
CacheableAnyTTL(method) == caching.enabled /\ method \in DOMAIN caching.methods

Cacheable(method) ==
    caching.enabled /\ method \in DOMAIN caching.methods /\ MethodTTL(method) > 0

\* GetCachedResponse: [resp, err]; resp = NoResponse is the nil response
GetCachedResponse(rq, ok) ==
    IF ~Cacheable(rq.method) THEN [resp |-> NoResponse, err |-> "nil"]
    ELSE IF ~ok THEN [resp |-> NoResponse, err |-> "redis"]
    ELSE IF RedisNil(generateKey(rq)) THEN [resp |-> NoResponse, err |-> "nil"]
    ELSE [resp |-> Unmarshal(cache[generateKey(rq)].val), err |-> "nil"]

\* StoreResponse: the cache after the call
StoreResponse(rq, resp, ok) ==
    IF ~Cacheable(rq.method) \/ ~ok THEN cache
    ELSE [cache EXCEPT ![generateKey(rq)] =
            [present |-> TRUE, val |-> Marshal(resp),
             expireAt |-> now + MethodTTL(rq.method)]]


(***************************************************************************)
(* Request goroutines: Handler.HandleRPC calling ExecuteWithRetry          *)
(***************************************************************************)
NoRequest == RPCRequest("", "nil", "", "nil")

\* the id of a TestRPC request (the time of the call)
TestIds == {"1"}

IdleReq ==
    [pc |-> "idle", rq |-> NoRequest,
     attempt |-> 0, backoff |-> InitialBackoff, tried |-> {}, prov |-> "nil",
     lastErr |-> "nil", stale |-> FALSE, cancelled |-> FALSE, upstream |-> "none",
     status |-> 0, code |-> 0, resp |-> NoResponse, provider |-> "", err |-> "nil",
     ms |-> 0, test |-> FALSE,
     hp |-> <<>>, idx |-> 0, best |-> "nil", min |-> minLatencyInit,
     readOk |-> FALSE, readErr |-> FALSE]

\* A call of ProviderPool.Next in progress keeps in the request record: hp, the
\* healthyProviders collected; idx, the position of the running loop; best and min,
\* bestProv and minLatency; readOk / readErr, a read of the call was answered / failed.
\* history of one ExecuteWithRetry call:
\*   selected   providers returned by NextWithExclude, in order
\*   executed   providers whose breaker Execute was called (parallel: cfBefore, the
\*              breaker's ConsecutiveFailures before the call; bumped, the breaker
\*              opened a new generation during the call)
\*   forwarded  providers whose ForwardRequest was called
\*   slept      backoff delays slept
\*   lookup     what GetCachedResponse returned to HandleRPC, when, and whether the
\*              store answered
\*   body       what the request body was: "badjson" or "json"
\*   counted    labels under which metrics.RequestsTotal was incremented
\*   sampleBefore  latency:<name> of the answering provider before UpdateLatency
\*   racedRead     forcedStates was read while a write of it was under way
\*   skipped       providers whose override the request read as "open"
\*   lateForward      ForwardRequest was called after the context was cancelled
\*   pickedOpen       selection returned a provider whose breaker was open, timeout pending
\*   pickedUnhealthy  selection returned a provider with a stored unhealthy snapshot
\*   pickedUnhealthyRead  the same, while the store answered the request's reads
NoLookup == [made |-> FALSE, resp |-> NoResponse, err |-> "nil", at |-> 0, ok |-> FALSE]

EmptyLog ==
    [selected |-> <<>>, executed |-> <<>>, cfBefore |-> <<>>, bumped |-> <<>>,
     forwarded |-> <<>>, slept |-> <<>>, lateForward |-> FALSE,
     lookup |-> NoLookup, body |-> "none", counted |-> <<>>,
     sampleBefore |-> NoSample, racedRead |-> FALSE, skipped |-> {},
     pickedOpen |-> FALSE, pickedUnhealthy |-> FALSE, pickedUnhealthyRead |-> FALSE]

\* history: selection returned name to request r
Picked(lg, r, name) ==
    [lg EXCEPT !.selected = Append(@, name),
               !.pickedOpen = @ \/ (cb[name].state = "open" /\ ~cb[name].expired),
               !.pickedUnhealthy = @ \/ health[name] = "unhealthy",
               !.pickedUnhealthyRead = @ \/ (health[name] = "unhealthy" /\ redisUp
                                                /\ ~req[r].cancelled)]

\* history: the breaker of the last executed provider opened a new generation
Bumped(lg, flag) ==
    [lg EXCEPT !.bumped = [i \in DOMAIN lg.bumped |->
                              IF i = Len(lg.bumped) THEN lg.bumped[i] \/ flag
                              ELSE lg.bumped[i]]]

\* history: request r called Execute on name's breaker, with gate the beforeRequest result
Executed(lg, r, name, gate) ==
    [lg EXCEPT !.executed = Append(@, name),
               !.cfBefore = Append(@, cb[name].consecutiveFailures),
               !.bumped = Append(@, gate.b.generation # 0),
               !.forwarded = IF gate.err = "nil" THEN Append(@, name) ELSE @,
               !.lateForward = @ \/ (gate.err = "nil" /\ req[r].cancelled)]

\* the Redis calls of request r are answered
StoreOk(r) == redisUp /\ ~req[r].cancelled

\* mutant of LoopContinues: one iteration too many
LoopContinuesOffByOne(attempt) == attempt <= maxRetries

\* for attempt := 0; attempt < maxRetries; attempt++
LoopContinues(attempt) == attempt < maxRetries

\* mutant of MarkTried: the provider is not recorded
MarkTriedForgets(tried, name) == tried

\* tried[prov.Name()] = true
MarkTried(tried, name) == tried \cup {name}

\* mutant of SleepsAfter: no attempt is followed by a sleep
SleepsAfterNever(attempt) == FALSE

\* if attempt < maxRetries-1 { select { time.After(backoff) / ctx.Done() } }
SleepsAfter(attempt) == attempt < maxRetries - 1

\* the answer to a failed ExecuteWithRetry: 500, from HandleRPC with the JSON-RPC
\* code -32603, from TestRPC with the error text alone
RespondError(rec, err) ==
    [rec EXCEPT !.pc = "done", !.status = 500,
                !.code = IF rec.test THEN 0 ELSE -32603, !.err = err,
                !.provider = "", !.resp = NoResponse]

\* mutant of AfterFailure: the first failure is answered at once
AfterFailureGivesUp(rec, err) == RespondError(rec, err)

\* what follows a failed attempt: the backoff select, or the next iteration
AfterFailure(rec, err) ==
    IF SleepsAfter(rec.attempt)
    THEN [rec EXCEPT !.pc = "backoff", !.lastErr = err]
    ELSE [rec EXCEPT !.pc = "select", !.lastErr = err, !.attempt = @ + 1]

\* requests whose Execute on breaker name is in flight miss its new generation
MarkStale(rs, self, name, b) ==
    [q \in Reqs |->
        IF q # self /\ rs[q].pc = "forward" /\ rs[q].prov = name /\ b.generation # 0
        THEN [rs[q] EXCEPT !.stale = TRUE] ELSE rs[q]]

\* history: forwards that failed while the breaker was closed, since the last
\* success; b is the breaker when the outcome arrives, b2 after it is recorded.
\* The count restarts when a breaker that was not closed changes state.
FailRunAfter(n, b, b2, success) ==
    IF b.state # "closed" /\ b2.state # b.state THEN 0
    ELSE IF b.state # "closed" THEN n
    ELSE IF success THEN 0
    ELSE IF n < TripThreshold THEN n + 1 ELSE n

\* requests as the history keys them: method and params
ReqKeys == Methods \X ParamVals

NoStore == [called |-> FALSE, resp |-> NoResponse, at |-> 0, ok |-> FALSE]

\* history: StoreResponse was called for rq with resp, on a method of the TTL table
StoreCalled(rq, resp, ok) ==
    IF caching.enabled /\ rq.method \in DOMAIN caching.methods
    THEN [lastStore EXCEPT ![<<rq.method, rq.params>>] =
            [called |-> TRUE, resp |-> resp, at |-> now, ok |-> ok]]
    ELSE lastStore

\* mutant of CacheHit: the cached response is never used
CacheHitIgnored(hit) == FALSE

\* mutant of CacheHit: a failed lookup ends the request as a hit does
CacheHitOrError(hit) == hit.err # "nil" \/ hit.resp # NoResponse

\* if err == nil && cachedResp != nil: the request is answered from the cache
CacheHit(hit) == hit.err = "nil" /\ hit.resp # NoResponse

\* mutant of ValidRequest: the method is not looked at
ValidRequestAnyMethod(rq) == rq.jsonrpc = "2.0"

\* the two validation checks of HandleRPC after the body has parsed
ValidRequest(rq) == rq.jsonrpc = "2.0" /\ rq.method # ""

\* mutant of NextBackoff: the delay stays what it was
NextBackoffConstant(backoff) == backoff

\* backoff *= 2
NextBackoff(backoff) == backoff * 2

\* mutant of ForcedOpen: the override is not looked at
ForcedOpenIgnored(name) == FALSE

\* r.forcedStates[prov.Name()] == "open"
ForcedOpen(name) == forcedStates[name] = "open"

\* RetryHandler.GetBreakerStatuses for one provider: cb.State().String(), or the
\* override
GetBreakerStatuses(name) ==
    IF forcedStates[name] = "open" THEN "FORCED OPEN" ELSE currentState(cb[name]).state

\* Handler.GetSystemStatus, the entry of one provider: the snapshot and the latency
\* are read with the error dropped (isHealthy is false without a snapshot)
GetSystemStatus(name, ok) ==
    LET healthStatus == GetProviderStatus(name, ok) IN
    [healthy       |-> healthStatus \notin {"err", "nil"} /\ healthStatus = "healthy",
     latency_ms    |-> GetLatency(name, ok).val,
     breaker_state |-> GetBreakerStatuses(name)]

\* history: metrics.RequestsTotal was incremented under the label (provider, status)
Counted(lg, provider, status) ==
    [lg EXCEPT !.counted = Append(@, <<provider, status>>)]

\* history: HandleRPC calls UpdateLatency for provider name
Sampled(lg, name) == [lg EXCEPT !.sampleBefore = latency[name]]

\* mutant of UpdateLatency: the sample of the first provider of the pool is written
UpdateLatencyOfFirst(name, ms, ok) ==
    IF ok THEN [latency EXCEPT ![providers[1]] = ms] ELSE latency

\* ProviderPool.UpdateLatency: SET latency:<name> to the milliseconds; a failed write
\* is dropped
UpdateLatency(name, ms, ok) ==
    IF ok THEN [latency EXCEPT ![name] = ms] ELSE latency

\* a request body: JSON that parses to an RPCRequest, or not
Body(parses, rq) == [parses |-> parses, rq |-> rq]

ShouldBindJSON(body) == IF body.parses THEN body.rq ELSE NoRequest

\* HandleRPC up to the cache lookup: the body is bound and validated; a request that
\* passes goes on to the lookup
HandleRPC(r, body) ==
    /\ req[r].pc = "idle"
    /\ LET rec == [req[r] EXCEPT !.rq = ShouldBindJSON(body)]
       IN /\ req' = [req EXCEPT ![r] =
            IF ~body.parses
            THEN [rec EXCEPT !.pc = "done", !.status = 400, !.code = -32700]
            ELSE IF ~ValidRequest(rec.rq)
            THEN [rec EXCEPT !.pc = "done", !.status = 400, !.code = -32600]
            ELSE [rec EXCEPT !.pc = "lookup"]]
          /\ log' = [log EXCEPT ![r].body = IF body.parses THEN "json" ELSE "badjson"]
    /\ served > 0
    /\ served' = served - 1
    /\ UNCHANGED <<lockVars, monitorVars, poolVars, storeVars, cacheVars, cb, forcedStates, failRun, events>>

\* HandleRPC's cache lookup: h.cacheHandler.GetCachedResponse with the request's
\* context; a response without error is the answer, a miss or an error goes on to
\* ExecuteWithRetry
LookupCache(r) ==
    /\ req[r].pc = "lookup"
    /\ LET hit == GetCachedResponse(req[r].rq, StoreOk(r))
       IN /\ req' = [req EXCEPT ![r] =
                        IF CacheHit(hit)
                        THEN [@ EXCEPT !.pc = "done", !.status = 200, !.resp = hit.resp]
                        ELSE [@ EXCEPT !.pc = "select"]]
          /\ log' = [log EXCEPT ![r].lookup =
                        [made |-> TRUE, resp |-> hit.resp, err |-> hit.err,
                         at |-> now, ok |-> StoreOk(r)]]
    /\ UNCHANGED <<lockVars, monitorVars, poolVars, storeVars, cacheVars, cb, forcedStates, failRun, budgetVars>>

\* Handler.TestRPC up to the call of ExecuteWithRetry: a getSlot request without
\* params, not validated and not looked up in the cache
TestRPC(r, id) ==
    /\ req[r].pc = "idle"
    /\ req' = [req EXCEPT ![r] =
                  [@ EXCEPT !.rq = RPCRequest("2.0", id, "getSlot", "nil"),
                            !.test = TRUE, !.pc = "select"]]
    /\ log' = [log EXCEPT ![r].body = "test"]
    /\ served > 0
    /\ served' = served - 1
    /\ UNCHANGED <<lockVars, monitorVars, poolVars, storeVars, cacheVars, cb, forcedStates, failRun, events>>

\* one iteration of the retry loop, first part: r.pool.NextWithExclude(ctx, tried)
\* returns, and the provider is recorded in tried
Select(r) ==
    /\ req[r].pc = "select"
    /\ LoopContinues(req[r].attempt)
    /\ LET rec == req[r]
           sel == NextWithExclude(rec.tried, StoreOk(r))
           name == sel.prov
       IN IF sel.err # "nil"
          THEN /\ req' = [req EXCEPT ![r] = RespondError(rec, "failed to select provider")]
               /\ log' = [log EXCEPT ![r] = Counted(@, "", "error")]
               /\ UNCHANGED current
          ELSE /\ current' = sel.current
               /\ req' = [req EXCEPT ![r] =
                             [rec EXCEPT !.tried = MarkTried(@, name), !.prov = name,
                                         !.pc = "picked"]]
               /\ log' = [log EXCEPT ![r] = Picked(@, r, name)]
    /\ UNCHANGED <<lockVars, monitorVars, providers, storeVars, cacheVars, cb, forcedStates, failRun, budgetVars>>

\* second part: the read of r.forcedStates[prov.Name()]; a forced-open provider is
\* skipped with continue, which ends the iteration
CheckForced(r) ==
    /\ req[r].pc = "picked"
    /\ req' = [req EXCEPT ![r] =
                  IF ForcedOpen(req[r].prov)
                  THEN [@ EXCEPT !.pc = "select", !.attempt = @ + 1]
                  ELSE [@ EXCEPT !.pc = "execute"]]
    /\ log' = [log EXCEPT ![r].racedRead = @ \/ writing # {},
                           ![r].skipped = IF ForcedOpen(req[r].prov)
                                          THEN @ \cup {req[r].prov} ELSE @]
    /\ UNCHANGED <<lockVars, monitorVars, poolVars, storeVars, cacheVars, cb, forcedStates, failRun, budgetVars>>

\* third part: cb.Execute is called; the breaker's beforeRequest lets the forward
\* start or rejects it
Execute(r) ==
    /\ req[r].pc = "execute"
    /\ LET rec == req[r]
           name == rec.prov
           gate == beforeRequest(cb[name])
       IN /\ cb' = [cb EXCEPT ![name] = Stored(gate.b)]
          /\ failRun' = [failRun EXCEPT ![name] =
                           IF gate.b.state # cb[name].state THEN 0 ELSE @]
          /\ log' = [log EXCEPT ![r] = Executed(@, r, name, gate)]
          /\ req' = [MarkStale(req, r, name, gate.b) EXCEPT ![r] =
                       IF gate.err = "nil"
                       THEN [rec EXCEPT !.pc = "forward", !.stale = FALSE]
                       ELSE AfterFailure(rec, gate.err)]
    /\ UNCHANGED <<lockVars, monitorVars, poolVars, storeVars, cacheVars, forcedStates, budgetVars>>

\* the loop ends without a response: "max retries exceeded, last error: ..."
Exhausted(r) ==
    /\ req[r].pc = "select"
    /\ ~LoopContinues(req[r].attempt)
    /\ req' = [req EXCEPT ![r] = RespondError(req[r], "max retries exceeded")]
    /\ log' = [log EXCEPT ![r] = Counted(@, "", "error")]
    /\ UNCHANGED <<lockVars, monitorVars, poolVars, storeVars, cacheVars, cb, forcedStates, failRun, budgetVars>>

\* the forward returns and Execute records the outcome (afterRequest): a response
\* ends ExecuteWithRetry and the handler counts the success, an error takes the
\* failure path of the loop
ForwardDone(r, kind, ms) ==
    /\ req[r].pc = "forward"
    /\ LET rec == req[r]
           name == rec.prov
           seen == IF rec.cancelled THEN "ctxerr" ELSE kind
           fwd == ForwardRequest(seen, rec.rq.id)
           b == afterRequest(cb[name], rec.stale, fwd.err = "nil")
       IN /\ cb' = [cb EXCEPT ![name] = Stored(b)]
          /\ failRun' = [failRun EXCEPT ![name] =
                            FailRunAfter(@, currentState(cb[name]), b, fwd.err = "nil")]
          /\ IF fwd.err = "nil"
             THEN req' = [MarkStale(req, r, name, b) EXCEPT ![r] =
                             [rec EXCEPT !.pc = IF rec.test THEN "sample" ELSE "cost",
                                         !.resp = fwd.resp, !.ms = ms,
                                         !.provider = name, !.upstream = seen]]
             ELSE req' = [MarkStale(req, r, name, b) EXCEPT ![r] =
                             AfterFailure([rec EXCEPT !.upstream = seen], fwd.err)]
          /\ log' = [log EXCEPT ![r] =
                        IF fwd.err = "nil"
                        THEN Counted(Bumped(@, rec.stale \/ b.generation # 0),
                                     name, "success")
                        ELSE Bumped(@, rec.stale \/ b.generation # 0)]
    /\ UNCHANGED <<lockVars, monitorVars, poolVars, storeVars, cacheVars, forcedStates, budgetVars>>

\* the handler after a success: h.pool.UpdateLatency, one SET of latency:<name>.
\* HandleRPC goes on to StoreResponse, TestRPC to the cost metric
SampleLatency(r) ==
    /\ req[r].pc = "sample"
    /\ latency' = UpdateLatency(req[r].provider, req[r].ms, StoreOk(r))
    /\ log' = [log EXCEPT ![r] = Sampled(@, req[r].provider)]
    /\ req' = [req EXCEPT ![r] = [@ EXCEPT !.pc = IF req[r].test THEN "cost" ELSE "store"]]
    /\ UNCHANGED <<lockVars, monitorVars, poolVars, redisUp, health, cacheVars, cb, forcedStates, failRun, budgetVars>>

\* h.pool.GetAll() for the cost metric, which takes the pool's mutex and gives it
\* back.  HandleRPC calls it before UpdateLatency; TestRPC calls it after, and then
\* answers 200 with the provider, the latency and the response
RecordCost(r) ==
    /\ req[r].pc = "cost"
    /\ mu = 0
    /\ req' = [req EXCEPT ![r] = IF req[r].test
                                  THEN [@ EXCEPT !.pc = "done", !.status = 200]
                                  ELSE [@ EXCEPT !.pc = "sample"]]
    /\ UNCHANGED <<lockVars, monitorVars, poolVars, storeVars, cacheVars, cb, forcedStates,
                   log, failRun, budgetVars>>

\* the rest of HandleRPC: StoreResponse, then the 200
StoreInCache(r) ==
    /\ req[r].pc = "store"
    /\ cache' = StoreResponse(req[r].rq, req[r].resp, StoreOk(r))
    /\ lastStore' = StoreCalled(req[r].rq, req[r].resp, StoreOk(r))
    /\ req' = [req EXCEPT ![r] = [@ EXCEPT !.pc = "done", !.status = 200]]
    /\ UNCHANGED <<lockVars, monitorVars, poolVars, storeVars, caching, now, cb, forcedStates, log, failRun, budgetVars>>

\* mutant of BackoffElapsed: time.Sleep(backoff), which no cancellation interrupts
BackoffElapsedSleep(r) ==
    /\ req[r].pc = "backoff"
    /\ req' = [req EXCEPT ![r] = [@ EXCEPT !.pc = "select", !.backoff = NextBackoff(@),
                                            !.attempt = @ + 1]]
    /\ log' = [log EXCEPT ![r].slept = Append(@, req[r].backoff)]
    /\ UNCHANGED <<lockVars, monitorVars, poolVars, storeVars, cacheVars, cb, forcedStates, failRun, budgetVars>>

\* case <-time.After(backoff): backoff *= 2, next iteration
BackoffElapsed(r) ==
    /\ req[r].pc = "backoff"
    /\ ~req[r].cancelled
    /\ req' = [req EXCEPT ![r] = [@ EXCEPT !.pc = "select", !.backoff = NextBackoff(@),
                                            !.attempt = @ + 1]]
    /\ log' = [log EXCEPT ![r].slept = Append(@, req[r].backoff)]
    /\ UNCHANGED <<lockVars, monitorVars, poolVars, storeVars, cacheVars, cb, forcedStates, failRun, budgetVars>>

\* the request record with one more read of the store noted
Read(rec, ok) == [rec EXCEPT !.readOk = @ \/ ok, !.readErr = @ \/ ~ok]

\* step 4 of Next: bestProv if the loop found one, else the round-robin fallback
ChooseProvider(hp, best) ==
    IF best # "nil" THEN [prov |-> best, err |-> "nil", current |-> current]
    ELSE RoundRobin(hp)

\* Next returns sel to ProviderPool.ForwardRequest: an error (or the panic of the
\* fallback) ends the call, a provider is forwarded to
AfterNext(rec, sel) ==
    IF sel.err # "nil" THEN [rec EXCEPT !.pc = "done", !.err = sel.err]
    ELSE [rec EXCEPT !.pc = "poolforward", !.prov = sel.prov, !.provider = sel.prov]

\* history: Next returned sel to request r
PickedByNext(lg, r, sel) ==
    IF sel.err # "nil" THEN lg
    ELSE [Picked(lg, r, sel.prov) EXCEPT !.forwarded = Append(@, sel.prov)]

\* ProviderPool.ForwardRequest calls Next: p.mu.Lock() returns (the call waits while
\* another goroutine holds the mutex) and the pool is not empty
PoolForwardRequest(r, body) ==
    /\ req[r].pc = "idle"
    /\ mu = 0
    /\ IF Len(providers) = 0
       THEN /\ req' = [req EXCEPT ![r] = [@ EXCEPT !.rq = body.rq, !.pc = "done",
                                                    !.err = "no providers available"]]
            /\ mu' = mu
       ELSE /\ req' = [req EXCEPT ![r] = [@ EXCEPT !.rq = body.rq, !.pc = "filter",
                                                    !.idx = 1]]
            /\ mu' = r
    /\ served > 0
    /\ served' = served - 1
    /\ UNCHANGED <<writing, monitorVars, poolVars, storeVars, cacheVars, cb, forcedStates,
                   log, failRun, events>>

\* 1. one iteration of the filter loop: GetProviderStatus is answered.  After the
\* last one the discovery loop starts; over an empty list the fallback is next
FilterRead(r) ==
    /\ req[r].pc = "filter"
    /\ mu = r
    /\ LET rec == req[r]
           name == providers[rec.idx]
           hp == IF IsHealthy(name, StoreOk(r)) THEN Append(rec.hp, name) ELSE rec.hp
           rec1 == [Read(rec, StoreOk(r)) EXCEPT !.hp = hp]
           sel == ChooseProvider(hp, "nil")
       IN IF rec.idx < Len(providers)
          THEN /\ req' = [req EXCEPT ![r] = [rec1 EXCEPT !.idx = @ + 1]]
               /\ UNCHANGED <<mu, current, log>>
          ELSE IF hp # <<>>
          THEN /\ req' = [req EXCEPT ![r] = [rec1 EXCEPT !.pc = "discover", !.idx = 1]]
               /\ UNCHANGED <<mu, current, log>>
          ELSE /\ req' = [req EXCEPT ![r] = AfterNext(rec1, sel)]
               /\ log' = [log EXCEPT ![r] = PickedByNext(@, r, sel)]
               /\ current' = sel.current
               /\ mu' = 0
    /\ UNCHANGED <<writing, monitorVars, providers, storeVars, cacheVars, cb, forcedStates,
                   failRun, budgetVars>>

\* 2. one iteration of the discovery loop: GetLatency is answered.  An error returns
\* the provider (the deferred Unlock runs); after the last one the latency loop starts
DiscoveryRead(r) ==
    /\ req[r].pc = "discover"
    /\ mu = r
    /\ LET rec == req[r]
           name == rec.hp[rec.idx]
           rec1 == Read(rec, StoreOk(r))
           sel == [prov |-> name, err |-> "nil", current |-> current]
       IN IF GetLatency(name, StoreOk(r)).err
          THEN /\ req' = [req EXCEPT ![r] = AfterNext(rec1, sel)]
               /\ log' = [log EXCEPT ![r] = PickedByNext(@, r, sel)]
               /\ mu' = 0
          ELSE /\ req' = [req EXCEPT ![r] =
                             IF rec.idx < Len(rec.hp) THEN [rec1 EXCEPT !.idx = @ + 1]
                             ELSE [rec1 EXCEPT !.pc = "least", !.idx = 1]]
               /\ UNCHANGED <<mu, log>>
    /\ UNCHANGED <<writing, monitorVars, poolVars, storeVars, cacheVars, cb, forcedStates,
                   failRun, budgetVars>>

\* 3. one iteration of the latency loop: GetLatency is answered, its error dropped
\* (latency 0).  After the last one step 4 selects and the deferred Unlock runs
LatencyRead(r) ==
    /\ req[r].pc = "least"
    /\ mu = r
    /\ LET rec == req[r]
           name == rec.hp[rec.idx]
           l == GetLatency(name, StoreOk(r)).val
           better == l > 0 /\ l < rec.min
           rec1 == [Read(rec, StoreOk(r)) EXCEPT !.min = IF better THEN l ELSE @,
                                                  !.best = IF better THEN name ELSE @]
           sel == ChooseProvider(rec.hp, rec1.best)
       IN IF rec.idx < Len(rec.hp)
          THEN /\ req' = [req EXCEPT ![r] = [rec1 EXCEPT !.idx = @ + 1]]
               /\ UNCHANGED <<mu, current, log>>
          ELSE /\ req' = [req EXCEPT ![r] = AfterNext(rec1, sel)]
               /\ log' = [log EXCEPT ![r] = PickedByNext(@, r, sel)]
               /\ current' = sel.current
               /\ mu' = 0
    /\ UNCHANGED <<writing, monitorVars, providers, storeVars, cacheVars, cb, forcedStates,
                   failRun, budgetVars>>

\* the rest of ProviderPool.ForwardRequest: the forward on the provider that Next
\* returned is over, without retry and without breaker
PoolForwardDone(r, kind) ==
    /\ req[r].pc = "poolforward"
    /\ LET seen == IF req[r].cancelled THEN "ctxerr" ELSE kind
           fwd == ForwardRequest(seen, req[r].rq.id)
       IN req' = [req EXCEPT ![r] =
                    [@ EXCEPT !.pc = "done", !.upstream = seen, !.resp = fwd.resp,
                              !.provider = IF fwd.err = "nil" THEN @ ELSE req[r].prov,
                              !.err = IF fwd.err = "nil" THEN "nil" ELSE "provider failed"]]
    /\ UNCHANGED <<lockVars, monitorVars, poolVars, storeVars, cacheVars, cb, forcedStates,
                   log, failRun, budgetVars>>

\* case <-ctx.Done(): return nil, "", ctx.Err()
BackoffCancelled(r) ==
    /\ req[r].pc = "backoff"
    /\ req[r].cancelled
    /\ req' = [req EXCEPT ![r] = RespondError(@, "context canceled")]
    /\ log' = [log EXCEPT ![r] = Counted(@, "", "error")]
    /\ UNCHANGED <<lockVars, monitorVars, poolVars, storeVars, cacheVars, cb, forcedStates, failRun, budgetVars>>

\* the client goes away or the request deadline passes
Cancel(r) ==
    /\ req[r].pc \in {"lookup", "select", "picked", "execute", "forward", "backoff", "cost",
                      "sample", "store",
                      "filter", "discover", "least", "poolforward"}
    /\ ~req[r].cancelled
    /\ req' = [req EXCEPT ![r].cancelled = TRUE]
    /\ UNCHANGED <<lockVars, monitorVars, poolVars, storeVars, cacheVars, cb, forcedStates, log, failRun, budgetVars>>

\* the goroutine ends; the slot serves the next request
Return(r) ==
    /\ req[r].pc = "done"
    /\ req' = [req EXCEPT ![r] = IdleReq]
    /\ log' = [log EXCEPT ![r] = EmptyLog]
    /\ UNCHANGED <<lockVars, monitorVars, poolVars, storeVars, cacheVars, cb, forcedStates, failRun, budgetVars>>

(***************************************************************************)
(* Environment and operator                                                *)
(***************************************************************************)
\* the breaker's deadline passes: Interval in closed, Timeout in open
BreakerDeadline(name) ==
    /\ name \in Range(providers)
    /\ cb[name].state \in {"closed", "open"}
    /\ ~cb[name].expired
    /\ cb' = [cb EXCEPT ![name].expired = TRUE]
    /\ events > 0
    /\ events' = events - 1
    /\ UNCHANGED <<lockVars, monitorVars, poolVars, storeVars, cacheVars, forcedStates, req, log, failRun, served>>

\* the process has ended with a fatal error of the runtime
Crashed == \A r \in Reqs : req[r].pc = "crashed"

\* the writes of the override map: TripProvider(name) for a provider, or ResetChaos
OverrideWrites == ProviderNames \cup {"reset"}

\* Handler.TripProvider / Handler.ResetChaos is entered.  RetryHandler has no lock:
\* from here until the assignment has landed the other goroutines run
OverrideWriteBegins(w) ==
    /\ w = "reset" \/ w \in Range(providers)
    /\ w \notin writing
    /\ ~Crashed
    /\ writing' = writing \cup {w}
    /\ events > 0
    /\ events' = events - 1
    /\ UNCHANGED <<mu, monitorVars, poolVars, storeVars, cacheVars, cb, forcedStates, req, log,
                   failRun, served>>

\* an override that would also trip the provider's real breaker
TripBreaker(name) ==
    /\ name \in Range(providers)
    /\ name \in writing
    /\ ~Crashed
    /\ writing' = writing \ {name}
    /\ forcedStates' = [forcedStates EXCEPT ![name] = "open"]
    /\ cb' = [cb EXCEPT ![name].state = "open"]
    /\ UNCHANGED <<mu, monitorVars, poolVars, storeVars, cacheVars, req, log, failRun, budgetVars>>

\* RetryHandler.TripProvider: the assignment r.forcedStates[name] = "open" lands and
\* the handler answers
TripProvider(name) ==
    /\ name \in Range(providers)
    /\ name \in writing
    /\ ~Crashed
    /\ writing' = writing \ {name}
    /\ forcedStates' = [forcedStates EXCEPT ![name] = "open"]
    /\ UNCHANGED <<mu, monitorVars, poolVars, storeVars, cacheVars, cb, req, log, failRun, budgetVars>>

\* RetryHandler.ResetChaos: r.forcedStates = make(map[string]string) lands and the
\* handler answers
ResetChaos ==
    /\ "reset" \in writing
    /\ ~Crashed
    /\ writing' = writing \ {"reset"}
    /\ forcedStates' = [name \in ProviderNames |-> ""]
    /\ UNCHANGED <<mu, monitorVars, poolVars, storeVars, cacheVars, cb, req, log, failRun, budgetVars>>

\* the runtime meets the read of ExecuteWithRetry (forcedStates[prov.Name()]) during
\* a map assignment: "fatal error: concurrent map read and map write" ends the
\* process, and every request with it
ConcurrentMapFault(r) ==
    /\ req[r].pc = "picked"
    /\ writing \cap ProviderNames # {}
    /\ req' = [q \in Reqs |-> [req[q] EXCEPT !.pc = "crashed"]]
    /\ log' = [log EXCEPT ![r].racedRead = TRUE]
    /\ UNCHANGED <<lockVars, monitorVars, poolVars, storeVars, cacheVars, cb, forcedStates,
                   failRun, budgetVars>>

\* the same for the read of GetBreakerStatuses, which GET /api/v1/status makes for
\* every breaker
StatusMapFault ==
    /\ writing \cap ProviderNames # {}
    /\ ~Crashed
    /\ req' = [q \in Reqs |-> [req[q] EXCEPT !.pc = "crashed"]]
    /\ UNCHANGED <<lockVars, monitorVars, poolVars, storeVars, cacheVars, cb, forcedStates,
                   log, failRun, budgetVars>>

\* two assignments to the map meet: "fatal error: concurrent map writes"
ConcurrentMapWrites ==
    /\ Cardinality(writing \cap ProviderNames) >= 2
    /\ ~Crashed
    /\ req' = [q \in Reqs |-> [req[q] EXCEPT !.pc = "crashed"]]
    /\ UNCHANGED <<lockVars, monitorVars, poolVars, storeVars, cacheVars, cb, forcedStates,
                   log, failRun, budgetVars>>

RedisOutage ==
    /\ redisUp' = ~redisUp
    /\ events > 0
    /\ events' = events - 1
    /\ UNCHANGED <<lockVars, monitorVars, poolVars, health, latency, cacheVars, cb, forcedStates, req, log, failRun, served>>

\* the 10-minute TTL of latency:<name> runs out: the sample is gone
LatencyExpires(name) ==
    /\ latency[name] # NoSample
    /\ latency' = [latency EXCEPT ![name] = NoSample]
    /\ events > 0
    /\ events' = events - 1
    /\ UNCHANGED <<lockVars, monitorVars, poolVars, redisUp, health, cacheVars, cb, forcedStates, req, log, failRun, served>>

\* healthTTL passes without a new write: the snapshot is gone
HealthExpires(name) ==
    /\ health[name] # "none"
    /\ health' = [health EXCEPT ![name] = "none"]
    /\ events > 0
    /\ events' = events - 1
    /\ UNCHANGED <<lockVars, monitorVars, poolVars, redisUp, latency, cacheVars, cb, forcedStates, req, log, failRun, served>>

\* time passes on the clock of the cache TTLs
Tick ==
    /\ now < MaxTime
    /\ now' = now + 1
    /\ UNCHANGED <<lockVars, monitorVars, poolVars, storeVars, caching, cache, lastStore, cb, forcedStates, req, log,
                   failRun, budgetVars>>

(***************************************************************************)
(* Dispatch specification: a pool of NProv providers, caching disabled.    *)
(* One event of the environment or of the operator falls in a behaviour,   *)
(* so no two writes of the override map meet here (they do in the chaos    *)
(* and race specifications).                                               *)
(***************************************************************************)
Pool(n) == SubSeq(AllNames, 1, n)

DispatchBodies == {Body(TRUE, RPCRequest("2.0", "1", "sendTransaction", "[1]"))}

\* no goroutine holds the pool's mutex and no write of the override map is under way
InitLocks ==
    /\ mu = 0
    /\ writing = {}

\* NewHealthMonitor: a context that is not cancelled; Start has not been called.
\* No snapshot has been written.
NewHealthMonitor == [started |-> FALSE, cancelled |-> FALSE, tick |-> FALSE, exited |-> FALSE]

InitMonitor ==
    /\ monitor = NewHealthMonitor
    /\ probes = [name \in ProviderNames |-> <<>>]
    /\ lastCheck = [name \in ProviderNames |-> NoSample]

\* every upstream answers getHealth with a result
AllAnswering == answering = [name \in ProviderNames |-> TRUE]

\* the state after construction, but for the pool and the contents of the store
InitControl ==
    /\ current = 0
    /\ redisUp = TRUE
    /\ cb = [name \in ProviderNames |-> NewCircuitBreaker]
    /\ forcedStates = [name \in ProviderNames |-> ""]
    /\ cache = [k \in CacheKeys |-> NoEntry]
    /\ now = 0
    /\ req = [r \in Reqs |-> IdleReq]
    /\ log = [r \in Reqs |-> EmptyLog]
    /\ failRun = [name \in ProviderNames |-> 0]
    /\ lastStore = [k \in ReqKeys |-> NoStore]
    /\ InitLocks
    /\ InitMonitor

InitCommon ==
    /\ InitControl
    /\ AllAnswering
    /\ health = [name \in ProviderNames |-> "none"]
    /\ latency = [name \in ProviderNames |-> NoSample]

(***************************************************************************)
(* health.HealthMonitor                                                    *)
(***************************************************************************)
MaxInFlight == 2
MaxMonitorEvents == 2

\* a checkProvider goroutine that has called CheckHealth; id tells the goroutines of
\* one provider apart while they run
NewProbe == [pc |-> "probing", healthy |-> FALSE, lastCheck |-> NoSample, id |-> 1]

\* seq without its i-th element
RemoveAt(seq, i) == SubSeq(seq, 1, i - 1) \o SubSeq(seq, i + 1, Len(seq))

\* mutant of ProbeWaits: checkProvider is called without go, one provider after another
ProbeWaitsForEarlier(ps, name) ==
    \E i \in DOMAIN providers, j \in DOMAIN providers :
        i < j /\ providers[j] = name /\ ps[providers[i]] # <<>>

\* go m.checkProvider(p): a probe runs on its own goroutine and waits for no other
ProbeWaits(ps, name) == FALSE

\* checkAll returns when it has started the goroutines: the loop waits for no probe
LoopWaits(ps) == FALSE

\* mutant of checkAll: no probe is started
checkAllNoProbe(ps) == ps

\* HealthMonitor.checkAll: one more probe in flight for every provider; the new
\* goroutine gets the smallest id that no running probe of the provider has
checkAll(ps) ==
    LET Running(name) == {ps[name][i].id : i \in DOMAIN ps[name]}
        FreeId(name) == CHOOSE k \in 1..(Len(ps[name]) + 1) :
                            /\ k \notin Running(name)
                            /\ \A j \in 1..(k - 1) : j \in Running(name)
    IN [name \in ProviderNames |->
           IF name \in Range(providers)
           THEN Append(ps[name], [NewProbe EXCEPT !.id = FreeId(name)])
           ELSE ps[name]]

\* the model's bound on the probes in flight
Room == \A name \in Range(providers) : Len(probes[name]) < MaxInFlight

\* mutant of SetAccepted: the SET is sent with a context of its own
SetAcceptedAfterStop == redisUp

\* m.redis.Set(m.ctx, ...): go-redis returns the error of a cancelled context before
\* it sends the command
SetAccepted == redisUp /\ ~monitor.cancelled

\* HealthMonitor.Start: the initial checkAll, then the loop goroutine
Start ==
    /\ ~monitor.started
    /\ monitor' = [monitor EXCEPT !.started = TRUE]
    /\ probes' = checkAll(probes)
    /\ UNCHANGED <<lockVars, lastCheck, answering, poolVars, storeVars, cacheVars, cb,
                   forcedStates, req, log, failRun, budgetVars>>

\* the ticker sends on ticker.C, a channel of capacity one
TickerFires ==
    /\ monitor.started
    /\ ~monitor.exited
    /\ ~monitor.tick
    /\ monitor' = [monitor EXCEPT !.tick = TRUE]
    /\ UNCHANGED <<lockVars, probes, lastCheck, answering, poolVars, storeVars, cacheVars, cb,
                   forcedStates, req, log, failRun, budgetVars>>

\* case <-ticker.C: m.checkAll().  The select statement takes this case also when the
\* context is cancelled, if a tick is waiting
LoopTick ==
    /\ monitor.started
    /\ ~monitor.exited
    /\ monitor.tick
    /\ ~LoopWaits(probes)
    /\ Room
    /\ monitor' = [monitor EXCEPT !.tick = FALSE]
    /\ probes' = checkAll(probes)
    /\ UNCHANGED <<lockVars, lastCheck, answering, poolVars, storeVars, cacheVars, cb,
                   forcedStates, req, log, failRun, budgetVars>>

\* case <-m.ctx.Done(): ticker.Stop(); return
LoopDone ==
    /\ monitor.started
    /\ ~monitor.exited
    /\ monitor.cancelled
    /\ ~LoopWaits(probes)
    /\ monitor' = [monitor EXCEPT !.exited = TRUE]
    /\ UNCHANGED <<lockVars, probes, lastCheck, answering, poolVars, storeVars, cacheVars, cb,
                   forcedStates, req, log, failRun, budgetVars>>

\* HealthMonitor.Stop: m.cancel()
Stop ==
    /\ monitor.started
    /\ ~monitor.cancelled
    /\ monitor' = [monitor EXCEPT !.cancelled = TRUE]
    /\ UNCHANGED <<lockVars, probes, lastCheck, answering, poolVars, storeVars, cacheVars, cb,
                   forcedStates, req, log, failRun, budgetVars>>

\* BaseProvider.CheckHealth returns to checkProvider: the forward has been answered,
\* has failed, or has been ended by the 5 s deadline or by the cancelled context;
\* LastCheck is time.Now(), Healthy is set for a response without error only
CheckHealth(name, i) ==
    /\ name \in Range(providers)
    /\ i \in DOMAIN probes[name]
    /\ probes[name][i].pc = "probing"
    /\ ~ProbeWaits(probes, name)
    /\ probes' = [probes EXCEPT ![name][i] =
                    [@ EXCEPT !.pc = "stamped", !.lastCheck = now,
                              !.healthy = answering[name] /\ ~monitor.cancelled]]
    /\ UNCHANGED <<lockVars, monitor, lastCheck, answering, poolVars, storeVars, cacheVars, cb,
                   forcedStates, req, log, failRun, budgetVars>>

\* the rest of checkProvider: updateStatus writes the status to health:<name>; a
\* failed write is logged and dropped
updateStatus(name, i) ==
    /\ name \in Range(providers)
    /\ i \in DOMAIN probes[name]
    /\ probes[name][i].pc = "stamped"
    /\ ~ProbeWaits(probes, name)
    /\ health' = IF SetAccepted
                 THEN [health EXCEPT ![name] =
                          IF probes[name][i].healthy THEN "healthy" ELSE "unhealthy"]
                 ELSE health
    /\ lastCheck' = IF SetAccepted
                    THEN [lastCheck EXCEPT ![name] = probes[name][i].lastCheck]
                    ELSE lastCheck
    /\ probes' = [probes EXCEPT ![name] = RemoveAt(@, i)]
    /\ UNCHANGED <<lockVars, monitor, answering, poolVars, redisUp, latency, cacheVars, cb,
                   forcedStates, req, log, failRun, budgetVars>>

\* an upstream stops answering getHealth with a result, or starts again
ProviderTurns(name) ==
    /\ name \in Range(providers)
    /\ answering' = [answering EXCEPT ![name] = ~@]
    /\ events > 0
    /\ events' = events - 1
    /\ UNCHANGED <<lockVars, monitor, probes, lastCheck, poolVars, storeVars, cacheVars, cb,
                   forcedStates, req, log, failRun, served>>

Init ==
    /\ InitCommon
    /\ providers = Pool(NProv)
    /\ caching = [enabled |-> FALSE, methods |-> <<>>]
    /\ served = MaxServed
    /\ events = MaxEvents

\* the dispatch specification runs one request at a time
OneAtATime == {1}

Next ==
    \/ \E r \in OneAtATime, body \in DispatchBodies : HandleRPC(r, body)
    \/ \E r \in OneAtATime : LookupCache(r)
    \/ \E r \in OneAtATime, id \in TestIds : TestRPC(r, id)
    \/ \E r \in OneAtATime : Select(r)
    \/ \E r \in OneAtATime : CheckForced(r)
    \/ \E r \in OneAtATime : Execute(r)
    \/ \E r \in OneAtATime : Exhausted(r)
    \/ \E r \in OneAtATime, kind \in Upstream, ms \in DispatchMs : ForwardDone(r, kind, ms)
    \/ \E r \in OneAtATime : SampleLatency(r)
    \/ \E r \in OneAtATime : RecordCost(r)
    \/ \E r \in OneAtATime : StoreInCache(r)
    \/ \E r \in OneAtATime : BackoffElapsed(r)
    \/ \E r \in OneAtATime : BackoffCancelled(r)
    \/ \E r \in OneAtATime : Cancel(r)
    \/ \E r \in OneAtATime : Return(r)
    \/ \E name \in ProviderNames : BreakerDeadline(name)
    \/ \E w \in OverrideWrites : OverrideWriteBegins(w)
    \/ \E name \in ProviderNames : TripProvider(name)
    \/ ResetChaos
    \/ \E r \in OneAtATime : ConcurrentMapFault(r)
    \/ StatusMapFault
    \/ \E name \in ProviderNames : LatencyExpires(name)
    \/ RedisOutage

Spec == Init /\ [][Next]_vars


(***************************************************************************)
(* Breaker specification: a pool of NBreakerProv providers served long     *)
(* enough for the breakers to trip and recover; the only environment event *)
(* is a breaker deadline.                                                  *)
(***************************************************************************)
InitBreaker ==
    /\ InitCommon
    /\ providers = Pool(NBreakerProv)
    /\ caching = [enabled |-> FALSE, methods |-> <<>>]
    /\ served = MaxBreakerServed
    /\ events = MaxBreakerEvents

NextBreaker ==
    \/ \E r \in OneAtATime, body \in DispatchBodies : HandleRPC(r, body)
    \/ \E r \in OneAtATime : LookupCache(r)
    \/ \E r \in OneAtATime : Select(r)
    \/ \E r \in OneAtATime : CheckForced(r)
    \/ \E r \in OneAtATime : Execute(r)
    \/ \E r \in OneAtATime : Exhausted(r)
    \/ \E r \in OneAtATime, kind \in Upstream, ms \in DispatchMs : ForwardDone(r, kind, ms)
    \/ \E r \in OneAtATime : SampleLatency(r)
    \/ \E r \in OneAtATime : RecordCost(r)
    \/ \E r \in OneAtATime : StoreInCache(r)
    \/ \E r \in OneAtATime : BackoffElapsed(r)
    \/ \E r \in OneAtATime : Return(r)
    \/ \E name \in ProviderNames : BreakerDeadline(name)
    \/ OverrideWriteBegins("reset")
    \/ ResetChaos

SpecBreaker == InitBreaker /\ [][NextBreaker]_vars


(***************************************************************************)
(* Health specification: pool [A, B] in the first probe interval.  Start   *)
(* runs the first probe cycle, whose probes write their snapshots while    *)
(* requests are served; upstreams stop and start answering, snapshots      *)
(* expire, the store fails and requests are cancelled.  With two providers *)
(* a request ends before its third iteration.                              *)
(***************************************************************************)
InitHealth ==
    /\ InitCommon
    /\ providers = Pool(2)
    /\ caching = [enabled |-> FALSE, methods |-> <<>>]
    /\ served = MaxHealthServed
    /\ events = MaxHealthEvents

NextHealth ==
    \/ \E r \in OneAtATime, body \in DispatchBodies : HandleRPC(r, body)
    \/ \E r \in OneAtATime : LookupCache(r)
    \/ \E r \in OneAtATime : Select(r)
    \/ \E r \in OneAtATime : CheckForced(r)
    \/ \E r \in OneAtATime : Execute(r)
    \/ \E r \in OneAtATime, kind \in Upstream, ms \in DispatchMs : ForwardDone(r, kind, ms)
    \/ \E r \in OneAtATime : SampleLatency(r)
    \/ \E r \in OneAtATime : RecordCost(r)
    \/ \E r \in OneAtATime : StoreInCache(r)
    \/ \E r \in OneAtATime : BackoffElapsed(r)
    \/ \E r \in OneAtATime : BackoffCancelled(r)
    \/ \E r \in OneAtATime : Cancel(r)
    \/ \E r \in OneAtATime : Return(r)
    \/ Start
    \/ \E name \in ProviderNames, i \in 1..MaxInFlight : CheckHealth(name, i)
    \/ \E name \in ProviderNames, i \in 1..MaxInFlight : updateStatus(name, i)
    \/ \E name \in ProviderNames : ProviderTurns(name)
    \/ \E name \in ProviderNames : HealthExpires(name)
    \/ RedisOutage

SpecHealth == InitHealth /\ [][NextHealth]_vars


(***************************************************************************)
(* Cache specification: one provider, caching enabled with a TTL table,    *)
(* time passing, the store failing and requests cancelled at any point     *)
(* after their arrival.                                                    *)
(***************************************************************************)
CachingConfig == [enabled |-> TRUE, methods |-> [getSlot |-> 2, getBlock |-> 0]]

\* getSlot (TTL 2) with two params, each under its own id, and getBlock (TTL 0)
CacheBodies ==
    {Body(TRUE, RPCRequest("2.0", "1", "getSlot", "[]")),
     Body(TRUE, RPCRequest("2.0", "2", "getSlot", "[1]")),
     Body(TRUE, RPCRequest("2.0", "1", "getBlock", "[]"))}

InitCache ==
    /\ InitCommon
    /\ providers = Pool(1)
    /\ caching = CachingConfig
    /\ served = MaxCacheServed
    /\ events = MaxCacheEvents

NextCache ==
    \/ \E r \in OneAtATime, body \in CacheBodies : HandleRPC(r, body)
    \/ \E r \in OneAtATime : LookupCache(r)
    \/ \E r \in OneAtATime, id \in TestIds : TestRPC(r, id)
    \/ \E r \in OneAtATime : Select(r)
    \/ \E r \in OneAtATime : CheckForced(r)
    \/ \E r \in OneAtATime : Execute(r)
    \/ \E r \in OneAtATime, kind \in Upstream, ms \in DispatchMs : ForwardDone(r, kind, ms)
    \/ \E r \in OneAtATime : SampleLatency(r)
    \/ \E r \in OneAtATime : RecordCost(r)
    \/ \E r \in OneAtATime : StoreInCache(r)
    \/ \E r \in OneAtATime : BackoffElapsed(r)
    \/ \E r \in OneAtATime : BackoffCancelled(r)
    \/ \E r \in OneAtATime : Cancel(r)
    \/ \E r \in OneAtATime : Return(r)
    \/ Tick
    \/ RedisOutage

SpecCache == InitCache /\ [][NextCache]_vars


(***************************************************************************)
(* Entry specification: one provider, caching enabled, time passing, and   *)
(* request bodies that HandleRPC rejects, answers from the cache or        *)
(* dispatches; a request can be cancelled before its cache lookup.         *)
(***************************************************************************)
\* a body that does not parse, a wrong and a missing version, a missing method, and
\* the same cacheable request under two ids
EntryBodies ==
    {Body(FALSE, NoRequest),
     Body(TRUE, RPCRequest("1.0", "1", "getSlot", "[]")),
     Body(TRUE, RPCRequest("", "1", "getSlot", "[]")),
     Body(TRUE, RPCRequest("2.0", "1", "", "[]")),
     Body(TRUE, RPCRequest("2.0", "1", "getSlot", "[]")),
     Body(TRUE, RPCRequest("2.0", "2", "getSlot", "[]"))}

InitEntry ==
    /\ InitCommon
    /\ providers = Pool(1)
    /\ caching = CachingConfig
    /\ served = MaxEntryServed
    /\ events = 0

NextEntry ==
    \/ \E r \in OneAtATime, body \in EntryBodies : HandleRPC(r, body)
    \/ \E r \in OneAtATime : LookupCache(r)
    \/ \E r \in OneAtATime, id \in TestIds : TestRPC(r, id)
    \/ \E r \in OneAtATime : Select(r)
    \/ \E r \in OneAtATime : CheckForced(r)
    \/ \E r \in OneAtATime : Execute(r)
    \/ \E r \in OneAtATime, kind \in Upstream, ms \in DispatchMs : ForwardDone(r, kind, ms)
    \/ \E r \in OneAtATime : SampleLatency(r)
    \/ \E r \in OneAtATime : RecordCost(r)
    \/ \E r \in OneAtATime : StoreInCache(r)
    \/ \E r \in OneAtATime : BackoffElapsed(r)
    \/ \E r \in OneAtATime : BackoffCancelled(r)
    \/ \E r \in OneAtATime : Cancel(r)
    \/ \E r \in OneAtATime : Return(r)
    \/ Tick

SpecEntry == InitEntry /\ [][NextEntry]_vars


(***************************************************************************)
(* Feedback specification: pool [A, B] with a latency sample or none       *)
(* stored for each provider, caching enabled, and request bodies that are  *)
(* rejected, answered from the cache or dispatched, one request after      *)
(* another through HandleRPC or TestRPC.  The client may go away at any    *)
(* point, the store may fail and a sample may expire.                      *)
(***************************************************************************)
InitFeedback ==
    /\ InitControl
    /\ AllAnswering
    /\ providers = Pool(2)
    /\ health = [name \in ProviderNames |-> "none"]
    /\ \E l \in [Range(Pool(2)) -> {NoSample, 150}] :
          latency = [name \in ProviderNames |-> IF name \in DOMAIN l THEN l[name] ELSE NoSample]
    /\ caching = CachingConfig
    /\ served = MaxFeedbackServed
    /\ events = MaxFeedbackEvents

NextFeedback ==
    \/ \E r \in OneAtATime, body \in EntryBodies : HandleRPC(r, body)
    \/ \E r \in OneAtATime : LookupCache(r)
    \/ \E r \in OneAtATime, id \in TestIds : TestRPC(r, id)
    \/ \E r \in OneAtATime : Select(r)
    \/ \E r \in OneAtATime : CheckForced(r)
    \/ \E r \in OneAtATime : Execute(r)
    \/ \E r \in OneAtATime, kind \in Upstream, ms \in DispatchMs : ForwardDone(r, kind, ms)
    \/ \E r \in OneAtATime : SampleLatency(r)
    \/ \E r \in OneAtATime : RecordCost(r)
    \/ \E r \in OneAtATime : StoreInCache(r)
    \/ \E r \in OneAtATime : BackoffElapsed(r)
    \/ \E r \in OneAtATime : BackoffCancelled(r)
    \/ \E r \in OneAtATime : Cancel(r)
    \/ \E r \in OneAtATime : Return(r)
    \/ \E name \in ProviderNames : LatencyExpires(name)
    \/ RedisOutage

SpecFeedback == InitFeedback /\ [][NextFeedback]_vars


(***************************************************************************)
(* Selection specification: pool [A, B, C] with every combination of       *)
(* stored latency samples and health snapshots, read by the retry loop's   *)
(* selection and by ProviderPool.ForwardRequest.                           *)
(***************************************************************************)
\* latency samples in ms, as UpdateLatency writes them (0 for a sub-millisecond reply)
Samples == {0, 50, 150, 200}

Snapshots == {"none", "unhealthy"}

InitSelect ==
    /\ InitControl
    /\ AllAnswering
    /\ providers = Pool(3)
    /\ \E h \in [Range(Pool(3)) -> Snapshots] :
          health = [name \in ProviderNames |-> IF name \in DOMAIN h THEN h[name] ELSE "none"]
    /\ \E l \in [Range(Pool(3)) -> Samples \cup {NoSample}] :
          latency = [name \in ProviderNames |-> IF name \in DOMAIN l THEN l[name] ELSE NoSample]
    /\ caching = [enabled |-> FALSE, methods |-> <<>>]
    /\ served = MaxSelectServed
    /\ events = MaxSelectEvents

NextSelect ==
    \/ \E r \in OneAtATime, body \in DispatchBodies : HandleRPC(r, body)
    \/ \E r \in OneAtATime : LookupCache(r)
    \/ \E r \in OneAtATime, id \in TestIds : TestRPC(r, id)
    \/ \E r \in OneAtATime : Select(r)
    \/ \E r \in OneAtATime : CheckForced(r)
    \/ \E r \in OneAtATime : Execute(r)
    \/ \E r \in OneAtATime : Exhausted(r)
    \/ \E r \in OneAtATime, kind \in Upstream, ms \in DispatchMs : ForwardDone(r, kind, ms)
    \/ \E r \in OneAtATime : SampleLatency(r)
    \/ \E r \in OneAtATime : RecordCost(r)
    \/ \E r \in OneAtATime : StoreInCache(r)
    \/ \E r \in OneAtATime : BackoffElapsed(r)
    \/ \E r \in OneAtATime : Return(r)
    \/ \E r \in OneAtATime, body \in DispatchBodies : PoolForwardRequest(r, body)
    \/ \E r \in OneAtATime : FilterRead(r)
    \/ \E r \in OneAtATime : DiscoveryRead(r)
    \/ \E r \in OneAtATime : LatencyRead(r)
    \/ \E r \in OneAtATime, kind \in Upstream : PoolForwardDone(r, kind)
    \/ \E name \in ProviderNames : LatencyExpires(name)
    \/ RedisOutage

SpecSelect == InitSelect /\ [][NextSelect]_vars


(***************************************************************************)
(* Overlap specification: pool [A, B, C], no snapshots, and a goroutine in *)
(* every slot that calls ProviderPool.ForwardRequest (Next, then the       *)
(* forward) at once or after the others; a slot serves one request.  At    *)
(* the start each provider has a latency sample or none.  Every upstream   *)
(* answers; the store may fail.                                            *)
(***************************************************************************)
\* upstream behaviours that are an answer
Answering == {"result", "rpcerror"}

InitOverlap ==
    /\ InitControl
    /\ AllAnswering
    /\ providers = Pool(3)
    /\ health = [name \in ProviderNames |-> "none"]
    /\ \E l \in [Range(Pool(3)) -> {NoSample, 50}] :
          latency = [name \in ProviderNames |-> IF name \in DOMAIN l THEN l[name] ELSE NoSample]
    /\ caching = [enabled |-> FALSE, methods |-> <<>>]
    /\ served = MaxOverlapServed
    /\ events = MaxOverlapEvents

NextOverlap ==
    \/ \E r \in Reqs, body \in DispatchBodies : PoolForwardRequest(r, body)
    \/ \E r \in Reqs : FilterRead(r)
    \/ \E r \in Reqs : DiscoveryRead(r)
    \/ \E r \in Reqs : LatencyRead(r)
    \/ \E r \in Reqs, kind \in Answering : PoolForwardDone(r, kind)
    \/ RedisOutage

SpecOverlap == InitOverlap /\ [][NextOverlap]_vars


(***************************************************************************)
(* Chaos specification: pool [A, B, C] with the operator setting and       *)
(* clearing overrides between and during requests.                         *)
(***************************************************************************)
InitChaos ==
    /\ InitCommon
    /\ providers = Pool(3)
    /\ caching = [enabled |-> FALSE, methods |-> <<>>]
    /\ served = MaxChaosServed
    /\ events = MaxChaosEvents

NextChaos ==
    \/ \E r \in OneAtATime, body \in DispatchBodies : HandleRPC(r, body)
    \/ \E r \in OneAtATime : LookupCache(r)
    \/ \E r \in OneAtATime : Select(r)
    \/ \E r \in OneAtATime : CheckForced(r)
    \/ \E r \in OneAtATime : Execute(r)
    \/ \E r \in OneAtATime : Exhausted(r)
    \/ \E r \in OneAtATime, kind \in Upstream, ms \in DispatchMs : ForwardDone(r, kind, ms)
    \/ \E r \in OneAtATime : SampleLatency(r)
    \/ \E r \in OneAtATime : RecordCost(r)
    \/ \E r \in OneAtATime : StoreInCache(r)
    \/ \E r \in OneAtATime : BackoffElapsed(r)
    \/ \E r \in OneAtATime : Return(r)
    \/ \E w \in OverrideWrites : OverrideWriteBegins(w)
    \/ \E name \in ProviderNames : TripProvider(name)
    \/ ResetChaos
    \/ \E r \in OneAtATime : ConcurrentMapFault(r)
    \/ StatusMapFault
    \/ ConcurrentMapWrites

SpecChaos == InitChaos /\ [][NextChaos]_vars


(***************************************************************************)
(* Probe specification: pool [A] served by two goroutines, from the state  *)
(* in which five requests in a row have failed on A and have returned, so  *)
(* that A's breaker is open; the timeout passes and A is probed.           *)
(***************************************************************************)
\* the breaker as its TripThreshold-th consecutive failure leaves it
TrippedBreaker ==
    Stored(onFailure([NewCircuitBreaker EXCEPT !.consecutiveFailures = TripThreshold - 1]))

\* the goroutines of the probe specification
TwoAtATime == {1, 2}

\* upstream behaviours of the probe specification: an answer or a failure
ProbeUpstream == {"result", "http500"}

InitProbe ==
    /\ current = 0
    /\ redisUp = TRUE
    /\ health = [name \in ProviderNames |-> "none"]
    /\ latency = [name \in ProviderNames |-> NoSample]
    /\ cb = [name \in ProviderNames |->
                IF name = "A" THEN TrippedBreaker ELSE NewCircuitBreaker]
    /\ forcedStates = [name \in ProviderNames |-> ""]
    /\ cache = [k \in CacheKeys |-> NoEntry]
    /\ now = 0
    /\ req = [r \in Reqs |-> IdleReq]
    /\ log = [r \in Reqs |-> EmptyLog]
    /\ failRun = [name \in ProviderNames |-> IF name = "A" THEN TripThreshold ELSE 0]
    /\ lastStore = [k \in ReqKeys |-> NoStore]
    /\ InitLocks
    /\ InitMonitor
    /\ AllAnswering
    /\ providers = Pool(1)
    /\ caching = [enabled |-> FALSE, methods |-> <<>>]
    /\ served = MaxProbeServed
    /\ events = MaxProbeEvents

NextProbe ==
    \/ \E r \in TwoAtATime, body \in DispatchBodies : HandleRPC(r, body)
    \/ \E r \in TwoAtATime : LookupCache(r)
    \/ \E r \in TwoAtATime : Select(r)
    \/ \E r \in TwoAtATime : CheckForced(r)
    \/ \E r \in TwoAtATime : Execute(r)
    \/ \E r \in TwoAtATime, kind \in ProbeUpstream, ms \in DispatchMs : ForwardDone(r, kind, ms)
    \/ \E r \in TwoAtATime : SampleLatency(r)
    \/ \E r \in TwoAtATime : RecordCost(r)
    \/ \E r \in TwoAtATime : StoreInCache(r)
    \/ \E r \in TwoAtATime : BackoffElapsed(r)
    \/ \E r \in TwoAtATime : Return(r)
    \/ \E name \in ProviderNames : BreakerDeadline(name)

SpecProbe == InitProbe /\ [][NextProbe]_vars


(***************************************************************************)
(* Table specification: one provider and every caching configuration over  *)
(* one TTL table: enabled or disabled; requests for a method with a        *)
(* positive TTL, one with TTL 0 and one that is not in the table; the      *)
(* store fails and requests are cancelled.                                 *)
(***************************************************************************)
CachingConfigs ==
    {[enabled |-> e, methods |-> CachingConfig.methods] : e \in BOOLEAN}

TableBodies ==
    {Body(TRUE, RPCRequest("2.0", "1", "getSlot", "[]")),
     Body(TRUE, RPCRequest("2.0", "1", "getBlock", "[]")),
     Body(TRUE, RPCRequest("2.0", "1", "sendTransaction", "[]"))}

InitTable ==
    /\ InitCommon
    /\ providers = Pool(1)
    /\ caching \in CachingConfigs
    /\ served = MaxTableServed
    /\ events = MaxTableEvents

NextTable ==
    \/ \E r \in OneAtATime, body \in TableBodies : HandleRPC(r, body)
    \/ \E r \in OneAtATime : LookupCache(r)
    \/ \E r \in OneAtATime, id \in TestIds : TestRPC(r, id)
    \/ \E r \in OneAtATime : Select(r)
    \/ \E r \in OneAtATime : CheckForced(r)
    \/ \E r \in OneAtATime : Execute(r)
    \/ \E r \in OneAtATime, kind \in Upstream, ms \in DispatchMs : ForwardDone(r, kind, ms)
    \/ \E r \in OneAtATime : SampleLatency(r)
    \/ \E r \in OneAtATime : RecordCost(r)
    \/ \E r \in OneAtATime : StoreInCache(r)
    \/ \E r \in OneAtATime : BackoffElapsed(r)
    \/ \E r \in OneAtATime : BackoffCancelled(r)
    \/ \E r \in OneAtATime : Cancel(r)
    \/ \E r \in OneAtATime : Return(r)
    \/ RedisOutage

SpecTable == InitTable /\ [][NextTable]_vars


(***************************************************************************)
(* Fairness specification: pool [A, B, C], no snapshots, and calls of      *)
(* ProviderPool.ForwardRequest (Next, then the forward) one after another  *)
(* without end; the store may fail.  At the start each provider has a      *)
(* latency sample or none; ForwardRequest writes none.  The goroutines     *)
(* keep running: the next-state relation is weakly fair.                   *)
(***************************************************************************)
\* the sequence of requests goes on: the budget of requests is refilled
MoreRequests ==
    /\ served = 0
    /\ served' = MaxFairServed
    /\ UNCHANGED <<lockVars, monitorVars, poolVars, storeVars, cacheVars, cb, forcedStates, req, log, failRun, events>>

InitFair ==
    /\ InitControl
    /\ AllAnswering
    /\ providers = Pool(3)
    /\ health = [name \in ProviderNames |-> "none"]
    /\ \E l \in [Range(Pool(3)) -> {NoSample, 50}] :
          latency = [name \in ProviderNames |-> IF name \in DOMAIN l THEN l[name] ELSE NoSample]
    /\ caching = [enabled |-> FALSE, methods |-> <<>>]
    /\ served = MaxFairServed
    /\ events = MaxFairEvents

NextFair ==
    \/ \E r \in OneAtATime, body \in DispatchBodies : PoolForwardRequest(r, body)
    \/ \E r \in OneAtATime : FilterRead(r)
    \/ \E r \in OneAtATime : DiscoveryRead(r)
    \/ \E r \in OneAtATime : LatencyRead(r)
    \/ \E r \in OneAtATime, kind \in Upstream : PoolForwardDone(r, kind)
    \/ \E r \in OneAtATime : Return(r)
    \/ RedisOutage
    \/ MoreRequests

SpecFair == InitFair /\ [][NextFair]_vars /\ WF_vars(NextFair)


(***************************************************************************)
(* Mutex specification: pool [A, B] and three goroutines that call         *)
(* ProviderPool.ForwardRequest (Next, then the forward) or Size.  Next     *)
(* locks the mutex and reads the store once per step; the deferred Unlock *)
(* runs with the step that returns.  A slow store is one whose next       *)
(* answer is late.                                                         *)
(***************************************************************************)
MaxMutexServed == 3
MaxMutexEvents == 1

\* ProviderPool.Size as Handler.HealthCheck calls it (GetAll is the same three lines):
\* Lock, read the slice, Unlock; the call waits while another goroutine holds the mutex
Size(r) ==
    /\ req[r].pc = "idle"
    /\ mu = 0
    /\ req' = [req EXCEPT ![r] = [@ EXCEPT !.pc = "done", !.status = 200]]
    /\ served > 0
    /\ served' = served - 1
    /\ UNCHANGED <<lockVars, monitorVars, poolVars, storeVars, cacheVars, cb, forcedStates,
                   log, failRun, events>>

InitMutex ==
    /\ InitControl
    /\ AllAnswering
    /\ providers = Pool(2)
    /\ health = [name \in ProviderNames |-> "none"]
    /\ \E l \in [Range(Pool(2)) -> {NoSample, 50}] :
          latency = [name \in ProviderNames |-> IF name \in DOMAIN l THEN l[name] ELSE NoSample]
    /\ caching = [enabled |-> FALSE, methods |-> <<>>]
    /\ served = MaxMutexServed
    /\ events = MaxMutexEvents

NextMutex ==
    \/ \E r \in Reqs, body \in DispatchBodies : PoolForwardRequest(r, body)
    \/ \E r \in Reqs : FilterRead(r)
    \/ \E r \in Reqs : DiscoveryRead(r)
    \/ \E r \in Reqs : LatencyRead(r)
    \/ \E r \in Reqs, kind \in Upstream : PoolForwardDone(r, kind)
    \/ \E r \in Reqs : Size(r)
    \/ \E r \in Reqs : Return(r)
    \/ RedisOutage

SpecMutex == InitMutex /\ [][NextMutex]_vars


(***************************************************************************)
(* Race specification: pool [A, B, C], requests in the retry loop while    *)
(* the operator's handlers write RetryHandler.forcedStates.  No lock       *)
(* guards the map, so a write is two steps (it starts; it lands and the    *)
(* handler returns) between which the other goroutines run.  A read that   *)
(* meets an assignment under way reads the old value, or the new one once  *)
(* the write has landed, or the Go runtime ends the process with "fatal    *)
(* error: concurrent map read and map write".                              *)
(***************************************************************************)
MaxRaceServed == 2
MaxRaceEvents == 2

InitRace ==
    /\ InitCommon
    /\ providers = Pool(3)
    /\ caching = [enabled |-> FALSE, methods |-> <<>>]
    /\ served = MaxRaceServed
    /\ events = MaxRaceEvents

NextRace ==
    \/ \E r \in OneAtATime, body \in DispatchBodies : HandleRPC(r, body)
    \/ \E r \in OneAtATime : LookupCache(r)
    \/ \E r \in OneAtATime : Select(r)
    \/ \E r \in OneAtATime : CheckForced(r)
    \/ \E r \in OneAtATime : Execute(r)
    \/ \E r \in OneAtATime : Exhausted(r)
    \/ \E r \in OneAtATime, kind \in Upstream, ms \in DispatchMs : ForwardDone(r, kind, ms)
    \/ \E r \in OneAtATime : SampleLatency(r)
    \/ \E r \in OneAtATime : RecordCost(r)
    \/ \E r \in OneAtATime : StoreInCache(r)
    \/ \E r \in OneAtATime : BackoffElapsed(r)
    \/ \E r \in OneAtATime : Return(r)
    \/ \E w \in OverrideWrites : OverrideWriteBegins(w)
    \/ \E name \in ProviderNames : TripProvider(name)
    \/ ResetChaos
    \/ \E r \in OneAtATime : ConcurrentMapFault(r)
    \/ StatusMapFault
    \/ ConcurrentMapWrites

SpecRace == InitRace /\ [][NextRace]_vars


(***************************************************************************)
(* Monitor specification: HealthMonitor over the pool [A, B].  Start runs  *)
(* the first probe cycle and starts the loop; the ticker sends a tick      *)
(* every interval; the loop answers a tick with checkAll, which starts one *)
(* checkProvider goroutine per provider, and answers the cancelled context *)
(* by returning.  A probe is two steps: CheckHealth returns the status,    *)
(* stamped with the time of its return; updateStatus writes it.  An        *)
(* upstream answers or does not; the store is up and the clock stands      *)
(* still.  A provider has at most MaxInFlight probes in flight.            *)
(* The loop goroutine and the checkProvider goroutines keep running: the   *)
(* steps of the loop, the return of CheckHealth from an upstream that      *)
(* answers and the write of updateStatus are weakly fair.  The probe of an *)
(* upstream that does not answer hangs: nothing makes its CheckHealth      *)
(* return while the other goroutines run.  Start, Stop and the ticker are  *)
(* not fair.                                                               *)
(***************************************************************************)
InitMonitoring ==
    /\ InitControl
    /\ health = [name \in ProviderNames |-> "none"]
    /\ latency = [name \in ProviderNames |-> NoSample]
    /\ providers = Pool(2)
    /\ \E up \in [Range(Pool(2)) -> BOOLEAN] :
          answering = [name \in ProviderNames |-> name \notin DOMAIN up \/ up[name]]
    /\ caching = [enabled |-> FALSE, methods |-> <<>>]
    /\ served = 0
    /\ events = 0

NextMonitor ==
    \/ Start
    \/ TickerFires
    \/ LoopTick
    \/ LoopDone
    \/ Stop
    \/ \E name \in ProviderNames, i \in 1..MaxInFlight : CheckHealth(name, i)
    \/ \E name \in ProviderNames, i \in 1..MaxInFlight : updateStatus(name, i)

SpecMonitor ==
    /\ InitMonitoring
    /\ [][NextMonitor]_vars
    /\ WF_vars(LoopTick)
    /\ WF_vars(LoopDone)
    /\ \A name \in Range(Pool(2)), i \in 1..MaxInFlight :
          /\ WF_vars(answering[name] /\ CheckHealth(name, i))
          /\ WF_vars(updateStatus(name, i))


(***************************************************************************)
(* Recovery specification: the monitor over the pool [A] with an upstream  *)
(* that answers or not at the start and stops and starts answering, a      *)
(* store that fails and snapshots that expire; the clock stands still.     *)
(* The loop, the ticker and the probes keep running: each of their steps   *)
(* is weakly fair.  Start, Stop and the environment are not.               *)
(***************************************************************************)
InitRecovery ==
    /\ InitControl
    /\ health = [name \in ProviderNames |-> "none"]
    /\ latency = [name \in ProviderNames |-> NoSample]
    /\ providers = Pool(1)
    /\ \E up \in BOOLEAN :
          answering = [name \in ProviderNames |-> name \notin Range(Pool(1)) \/ up]
    /\ caching = [enabled |-> FALSE, methods |-> <<>>]
    /\ served = 0
    /\ events = MaxMonitorEvents

\* the steps of the monitor's own goroutines and of its ticker
MonitorRuns ==
    \/ TickerFires
    \/ LoopTick
    \/ LoopDone
    \/ \E name \in ProviderNames, i \in 1..MaxInFlight : CheckHealth(name, i)
    \/ \E name \in ProviderNames, i \in 1..MaxInFlight : updateStatus(name, i)

NextRecovery ==
    \/ Start
    \/ Stop
    \/ MonitorRuns
    \/ \E name \in ProviderNames : ProviderTurns(name)
    \/ \E name \in ProviderNames : HealthExpires(name)
    \/ RedisOutage

SpecRecovery ==
    /\ InitRecovery
    /\ [][NextRecovery]_vars
    /\ WF_vars(TickerFires)
    /\ WF_vars(LoopTick)
    /\ WF_vars(LoopDone)
    /\ \A name \in Range(Pool(1)), i \in 1..MaxInFlight :
          WF_vars(CheckHealth(name, i)) /\ WF_vars(updateStatus(name, i))


(***************************************************************************)
(* Stamp specification: the monitor over the pool [A] on a clock that      *)
(* advances, so that the statuses of two probes carry different LastCheck  *)
(* times; the store is up.                                                 *)
(***************************************************************************)
NextStamp ==
    \/ Start
    \/ Stop
    \/ MonitorRuns
    \/ Tick

SpecStamp == InitRecovery /\ [][NextStamp]_vars


(***************************************************************************)
(* Properties                                                              *)
(***************************************************************************)
NoDup(seq) == \A i, j \in DOMAIN seq : i # j => seq[i] # seq[j]

\* C1 (No-double-try): within one ExecuteWithRetry call no provider is returned twice
\* by selection and none is forwarded to twice; what selection returns was not tried
\* before in the request.
C1_NoDoubleTry ==
    \A r \in Reqs :
        /\ NoDup(log[r].selected)
        /\ NoDup(log[r].forwarded)
        /\ Range(log[r].selected) = req[r].tried

\* a request retried twice: three different providers were selected and forwarded to
C1_Witness ==
    \E r \in Reqs : Len(log[r].selected) = 3 /\ Len(log[r].forwarded) = 3

\* C2 (At-most-maxRetries): one ExecuteWithRetry call makes at most maxRetries breaker
\* executions, hence at most maxRetries forwards, whatever the size of the pool.
C2_AtMostMaxRetries ==
    \A r \in Reqs :
        /\ Len(log[r].executed) <= maxRetries
        /\ Len(log[r].forwarded) <= maxRetries

\* the pool holds more than maxRetries providers, three attempts failed and the call
\* ended with "max retries exceeded" although a provider was never tried
C2_Witness ==
    \E r \in Reqs :
        /\ Len(providers) > maxRetries
        /\ req[r].pc = "done" /\ req[r].err = "max retries exceeded"
        /\ Len(log[r].executed) = maxRetries
        /\ req[r].tried # Range(providers)


Last(seq) == seq[Len(seq)]

\* C3 (Breaker trip): once TripThreshold forwards to a provider have failed while its
\* breaker was closed, with no success in between, the breaker is open.
\* The code does not keep this: the closed state starts a new generation, with the
\* counts cleared, every Interval.
C3_TripAfterFiveFailures ==
    \A name \in ProviderNames :
        failRun[name] >= TripThreshold => cb[name].state = "open"

\* C4 (Open breaker excluded from selection): selection never returns a provider whose
\* breaker is open with its timeout pending.
\* The code does not keep this: NextWithExclude does not read the breakers.
C4_OpenBreakerNotSelected ==
    \A r \in Reqs : ~log[r].pickedOpen

\* a request that failed over: two executions, both forwarded, the second answered
FailoverCase(r) ==
    /\ req[r].pc = "done" /\ req[r].status = 200
    /\ Len(log[r].executed) = 2 /\ Len(log[r].forwarded) = 2

\* C6 as stated (Failover): after A failed and B answered, the call returns B's response
\* and B's name, A's consecutive-failure counter is one higher than before the request
\* and B's is not higher.
C6_FailoverCountsOne ==
    \A r \in Reqs :
        FailoverCase(r) =>
            /\ req[r].provider = log[r].forwarded[2]
            /\ req[r].resp = UpstreamResponse(req[r].upstream, req[r].rq.id)
            /\ cb[log[r].forwarded[1]].consecutiveFailures = log[r].cfBefore[1] + 1
            /\ cb[log[r].forwarded[2]].consecutiveFailures <= log[r].cfBefore[2]

\* C6 as amended (Failover): after A failed and B answered, the call returns B's
\* response and B's name and B's counter is not higher; A's counter is one higher than
\* before the request unless A's breaker opened a new generation during the attempt
\* (the failure tripped it, or a deadline of the breaker had passed).
C6_FailoverCountsOneInGeneration ==
    \A r \in Reqs :
        FailoverCase(r) =>
            /\ log[r].forwarded[1] # log[r].forwarded[2]
            /\ req[r].provider = log[r].forwarded[2]
            /\ req[r].resp = UpstreamResponse(req[r].upstream, req[r].rq.id)
            /\ cb[log[r].forwarded[2]].consecutiveFailures <= log[r].cfBefore[2]
            /\ ~log[r].bumped[1] =>
                  cb[log[r].forwarded[1]].consecutiveFailures = log[r].cfBefore[1] + 1

\* a failover in which A's breaker stayed in its generation and had failures before
C6_Witness ==
    \E r \in Reqs :
        /\ FailoverCase(r)
        /\ ~log[r].bumped[1]
        /\ log[r].cfBefore[1] = 2
        /\ cb[log[r].forwarded[1]].consecutiveFailures = 3

\* C7 (Application-level errors are not retried): when the upstream answers with a
\* response whose error field is set, the call is over with that response as a success
\* of that provider: no error, the response as the upstream sent it (answered with 200
\* once the latency and cache writes are through), no selection and no backoff after it,
\* and the breaker's failure counter not higher than before.
C7_RpcErrorIsSuccess ==
    \A r \in Reqs :
        req[r].upstream = "rpcerror" =>
            /\ req[r].pc \in {"sample", "store", "cost", "done", "crashed"}
            /\ req[r].pc = "done" => req[r].status = 200
            /\ req[r].err = "nil"
            /\ req[r].resp = UpstreamResponse("rpcerror", req[r].rq.id)
            /\ req[r].resp.error # "nil"
            /\ req[r].provider = Last(log[r].forwarded)
            /\ req[r].provider = Last(log[r].selected)
            /\ Len(log[r].slept) = Len(log[r].executed) - 1
            /\ cb[req[r].provider].consecutiveFailures <= Last(log[r].cfBefore)

\* the second provider of a request answered with an RPC error after the first failed
C7_Witness ==
    \E r \in Reqs :
        /\ req[r].pc = "done" /\ req[r].upstream = "rpcerror"
        /\ Len(log[r].forwarded) = 2
        /\ log[r].cfBefore[2] > 0

\* in this step the process ends on a fault of the runtime while request r is in flight
ProcessEnds(r) == req[r].pc # "crashed" /\ req'[r] = [req[r] EXCEPT !.pc = "crashed"]

\* C8 (Cancellation during backoff): a request that is cancelled while it sleeps between
\* attempts does nothing but return the cancellation error: the sleep is not completed
\* and no provider is selected, executed or forwarded to (the process may end first).
C8_CancelDuringBackoff ==
    [][\A r \in Reqs :
          (req[r].pc = "backoff" /\ req[r].cancelled) =>
              /\ log'[r].selected = log[r].selected
              /\ log'[r].executed = log[r].executed
              /\ log'[r].forwarded = log[r].forwarded
              /\ log'[r].slept = log[r].slept
              /\ \/ req'[r] = req[r]
                 \/ ProcessEnds(r)
                 \/ /\ req'[r].pc = "done"
                    /\ req'[r].err = "context canceled"
                    /\ req'[r].resp = NoResponse /\ req'[r].provider = ""]_vars

\* a request cancelled during its sleep (its forward had failed upstream, not by the
\* cancellation) has returned the cancellation error
C8_Witness ==
    \E r \in Reqs :
        /\ req[r].pc = "done" /\ req[r].cancelled
        /\ req[r].upstream = "http500"
        /\ req[r].err = "context canceled"
        /\ Len(log[r].forwarded) = 1 /\ log[r].slept = <<>>

\* C9 (Cancellation at any point): a request whose context was cancelled before
\* ExecuteWithRetry returned ends with the cancellation error.
\* The code does not keep this: the context is looked at in the backoff select only,
\* so a cancellation during the last attempt ends in "max retries exceeded".
C9_CancelReturnsCtxErr ==
    [][\A r \in Reqs :
          (/\ req[r].cancelled
           /\ req[r].pc \in {"select", "picked", "execute", "forward", "backoff"}
           /\ req'[r].pc \in {"cost", "sample", "done"}) =>
              req'[r].err = "context canceled"]_vars

\* a provider without a snapshot that the request has not tried is a candidate
NoSnapshotIsCandidate(r) ==
    req[r].pc = "select" =>
        \A name \in Range(providers) \ req[r].tried :
            health[name] = "none" => name \in Range(Candidates(req[r].tried, StoreOk(r)))

\* C5 as stated (Health exclusion): selection never returns a provider whose stored
\* snapshot says unhealthy and has not expired; a provider without a snapshot is a
\* candidate.
C5_UnhealthyNeverSelected ==
    \A r \in Reqs : ~log[r].pickedUnhealthy /\ NoSnapshotIsCandidate(r)

\* C5 as amended (Health exclusion): selection never returns a provider whose stored
\* snapshot says unhealthy and has not expired, when the snapshot could be read (the
\* store answers and the request's context is live); a provider without a snapshot is
\* a candidate.
C5_UnhealthyReadNeverSelected ==
    \A r \in Reqs : ~log[r].pickedUnhealthyRead /\ NoSnapshotIsCandidate(r)

\* the first provider of the pool, never measured, was passed over because of its
\* unhealthy snapshot
C5_Witness ==
    \E r \in Reqs :
        /\ req[r].pc = "forward" /\ log[r].selected = <<"B">>
        /\ latency["A"] = NoSample
        /\ health["A"] = "unhealthy" /\ health["B"] = "none"
        /\ redisUp /\ ~req[r].cancelled

\* the lookup of request r against the last StoreResponse call for its method and
\* params: before the method's TTL has elapsed it returns the stored response, after
\* that a miss
LookupAgrees(r) ==
    LET rq == req[r].rq
        st == lastStore[<<rq.method, rq.params>>]
        ttl == caching.methods[rq.method]
    IN IF log[r].lookup.at < st.at + ttl
       THEN log[r].lookup.resp = st.resp /\ log[r].lookup.err = "nil"
       ELSE log[r].lookup.resp = NoResponse

\* request r looked the cache up for a method of the TTL table after a StoreResponse
\* call for the same method and params (no provider has answered r, so the call was
\* not its own)
LookupAfterStore(r) ==
    /\ log[r].lookup.made
    /\ caching.enabled /\ req[r].rq.method \in DOMAIN caching.methods
    /\ lastStore[<<req[r].rq.method, req[r].rq.params>>].called
    /\ req[r].provider = ""

\* C10 as stated (Cache idempotence): with caching enabled and the method in the TTL
\* table, a GetCachedResponse(r) after StoreResponse(r, resp) returns resp before the
\* method's TTL has elapsed and a miss after it.
C10_CacheIdempotence ==
    \A r \in Reqs : LookupAfterStore(r) => LookupAgrees(r)

\* C10 as amended (Cache idempotence): with caching enabled and the method in the TTL
\* table, a GetCachedResponse(r) after StoreResponse(r, resp) returns resp before the
\* method's TTL has elapsed and a miss after it, provided the store answered both
\* calls.
C10_CacheIdempotenceStoreUp ==
    \A r \in Reqs :
        (/\ LookupAfterStore(r)
         /\ log[r].lookup.ok
         /\ lastStore[<<req[r].rq.method, req[r].rq.params>>].ok) => LookupAgrees(r)

\* a request was answered from the cache, one tick after the response was stored
C10_Witness ==
    \E r \in Reqs :
        LET st == lastStore[<<req[r].rq.method, req[r].rq.params>>] IN
        /\ LookupAfterStore(r) /\ log[r].lookup.ok /\ st.ok
        /\ log[r].lookup.at = st.at + 1
        /\ caching.methods[req[r].rq.method] = 2
        /\ req[r].pc = "done" /\ req[r].status = 200
        /\ req[r].resp = st.resp /\ st.resp.result = "100"

\* request r leaves HandleRPC's entry in this step
Arrives(r) == req[r].pc = "idle" /\ req'[r].pc # "idle"

\* in this step HandleRPC's call of GetCachedResponse for request r returns
LookupStep(r) == req[r].pc = "lookup" /\ req'[r].pc \notin {"lookup", "crashed"}

\* the step touches nothing of the dispatch: cursor, breakers, store, cache
NoDispatchEffect(r) ==
    /\ current' = current /\ cb' = cb /\ failRun' = failRun
    /\ health' = health /\ latency' = latency
    /\ cache' = cache /\ lastStore' = lastStore
    /\ log'[r].selected = <<>> /\ log'[r].executed = <<>> /\ log'[r].forwarded = <<>>
    /\ log'[r].slept = <<>> /\ log'[r].counted = <<>>

\* the store holds an unexpired entry under the key of a cacheable rq and answers
EntryLive(rq) ==
    /\ redisUp /\ ValidRequest(rq)
    /\ caching.enabled /\ rq.method \in DOMAIN caching.methods
    /\ caching.methods[rq.method] > 0
    /\ cache[<<rq.method, MarshalParams(rq.params)>>].present
    /\ now < cache[<<rq.method, MarshalParams(rq.params)>>].expireAt

\* C11 (Cache hit bypasses dispatch): a request whose lookup finds an unexpired entry
\* (the cache holds one and the lookup is answered) is answered 200 with the cached
\* response by the lookup itself; neither that step nor any step of the request
\* before it selects or forwards to a provider, changes a breaker, writes a latency
\* sample or a cache entry or increments a request counter.
C11_CacheHitBypassesDispatch ==
    [][\A r \in Reqs :
          /\ (LookupStep(r) /\ EntryLive(req[r].rq) /\ ~req[r].cancelled) =>
                /\ req'[r].pc = "done" /\ req'[r].status = 200
                /\ req'[r].resp =
                      Unmarshal(cache[<<req[r].rq.method, MarshalParams(req[r].rq.params)>>].val)
                /\ NoDispatchEffect(r)
          /\ (Arrives(r) /\ req'[r].pc = "lookup") => NoDispatchEffect(r)]_vars

\* a request was answered from an entry that a request with another id had stored
C11_Witness ==
    \E r \in Reqs :
        /\ req[r].pc = "done" /\ req[r].status = 200
        /\ log[r].lookup.made /\ log[r].lookup.resp = req[r].resp
        /\ log[r].selected = <<>> /\ log[r].counted = <<>>
        /\ req[r].rq.id = "2" /\ req[r].resp.result = "100"

\* C12 (Response id echoes request id): a request answered with a JSON-RPC response
\* gets a response whose id is its own.
\* The code does not keep this: the cache key leaves the id out and the cached
\* response is returned as it was stored.
C12_ResponseIdEchoesRequestId ==
    \A r \in Reqs :
        (req[r].pc = "done" /\ req[r].status = 200) => req[r].resp.id = req[r].rq.id

\* C18 (Validation never reaches dispatch): a body that is not valid JSON is answered
\* 400 with code -32700, a request whose jsonrpc is not "2.0" or whose method is empty
\* 400 with code -32600, and in these cases there is no cache lookup, no selection, no
\* forward, no breaker update and no latency or cache write.
C18_ValidationNeverDispatches ==
    [][\A r \in Reqs :
          Arrives(r) =>
              /\ log'[r].body = "badjson" =>
                    /\ req'[r].pc = "done" /\ req'[r].status = 400 /\ req'[r].code = -32700
                    /\ ~log'[r].lookup.made /\ NoDispatchEffect(r)
              /\ (log'[r].body = "json"
                    /\ (req'[r].rq.jsonrpc # "2.0" \/ req'[r].rq.method = "")) =>
                    /\ req'[r].pc = "done" /\ req'[r].status = 400 /\ req'[r].code = -32600
                    /\ ~log'[r].lookup.made /\ NoDispatchEffect(r)]_vars

\* a request without method was rejected while the cache held an entry and the
\* provider had been used
C18_Witness ==
    \E r \in Reqs :
        /\ req[r].pc = "done" /\ req[r].status = 400 /\ req[r].code = -32600
        /\ req[r].rq.jsonrpc = "2.0" /\ req[r].rq.method = ""
        /\ cache[<<"getSlot", "[]">>].present
        /\ latency["A"] # NoSample

\* the smallest stored sample among the providers of seq
MinSample(seq) ==
    CHOOSE m \in {latency[seq[i]] : i \in DOMAIN seq} :
        \A i \in DOMAIN seq : m <= latency[seq[i]]

AllSampled(seq) == \A i \in DOMAIN seq : latency[seq[i]] # NoSample

\* the positions of a goroutine inside ProviderPool.Next
NextPcs == {"filter", "discover", "least"}

\* in this step ProviderPool.Next returns a provider to request r
NextReturns(r) == req[r].pc \in NextPcs /\ req'[r].pc = "poolforward"

\* C13 (Least-latency selection): when every candidate has a latency sample and every
\* read of the selection was answered, Next returns a candidate whose sample is the
\* minimum over the candidates, a sample of 0 ms included.
\* The code does not keep this: the loop of Next takes samples > 0 only.
C13_LeastLatencySelected ==
    [][\A r \in Reqs :
          (NextReturns(r) /\ ~req'[r].readErr /\ AllSampled(req[r].hp)) =>
              latency[req'[r].prov] = MinSample(req[r].hp)]_vars

\* C19 (Empty candidate set is an error value): a selection that finds no candidate
\* fails with "no providers available", leaves the cursor where it was, and does not
\* crash.
\* The code does not keep this: Next indexes the empty list of healthy providers.
C19_EmptyCandidateSetIsError ==
    \A r \in Reqs :
        /\ req[r].err # "panic: integer divide by zero"
        /\ (req[r].pc = "done" /\ log[r].selected = <<>> /\ log[r].body = "none"
              /\ req[r].err # "nil") => req[r].err = "no providers available"

\* the requests that have arrived
Arrived == {r \in Reqs : req[r].pc # "idle"}

\* exactly three requests have arrived and each was answered by the first provider
\* selected for it
ThreeServedFirstTry ==
    /\ Cardinality(Arrived) = 3
    /\ \A r \in Arrived :
          /\ req[r].pc = "done" /\ req[r].err = "nil" /\ req[r].upstream \in Answering
          /\ Len(log[r].selected) = 1

\* every provider of the pool served exactly one of the requests
EachProviderOnce ==
    \A name \in Range(providers) :
        Cardinality({r \in Arrived : req[r].provider = name}) = 1

\* no provider has a health snapshot or a latency sample
NothingStored ==
    \A name \in Range(providers) : health[name] = "none" /\ latency[name] = NoSample

\* C14 (Round-robin discovery): with pool [A, B, C], no latency samples and no health
\* snapshots, three requests that all succeed are served by three different
\* providers, one after another or overlapping.
\* The code does not keep this: the discovery loop of Next returns the first provider
\* without a sample every time, and ProviderPool.ForwardRequest writes no sample.
C14_DiscoveryEachProviderOnce ==
    (NothingStored /\ ThreeServedFirstTry) => EachProviderOnce

\* this step starts no forward of request r to provider name
NoForwardTo(r, name) ==
    Len(log'[r].forwarded) > Len(log[r].forwarded) => Last(log'[r].forwarded) # name

\* C15 as stated (Operator override): while a provider is forced open, no request
\* starts a forward to it and GetBreakerStatuses reports "FORCED OPEN" for it.
C15_OperatorOverride ==
    [][\A name \in Range(providers) :
          forcedStates[name] = "open" =>
              /\ GetBreakerStatuses(name) = "FORCED OPEN"
              /\ \A r \in Reqs : NoForwardTo(r, name)]_vars

\* in this step request r leaves the check of the override of the provider it picked
OverrideChecked(r) == req[r].pc = "picked" /\ req'[r].pc \notin {"picked", "crashed"}

\* C15 as amended (Operator override): while a provider is forced open
\* GetBreakerStatuses reports "FORCED OPEN" for it, and a request that checks the
\* override of the provider it picked while it is forced open skips the provider: the
\* iteration is used up without an execution, a forward or a sleep, and the request
\* never executes on the provider or forwards to it afterwards.  (A request that made
\* the check before the override landed goes on to the provider.)
C15_OverrideSeenIsObeyed ==
    [][\A name \in Range(providers) :
          /\ forcedStates[name] = "open" => GetBreakerStatuses(name) = "FORCED OPEN"
          /\ \A r \in Reqs :
                /\ (/\ OverrideChecked(r) /\ req[r].prov = name
                    /\ forcedStates[name] = "open") =>
                       /\ req'[r].pc = "select" /\ req'[r].attempt = req[r].attempt + 1
                       /\ name \in log'[r].skipped
                       /\ log'[r].executed = log[r].executed
                       /\ log'[r].forwarded = log[r].forwarded
                       /\ log'[r].slept = log[r].slept
                /\ name \in log[r].skipped =>
                       /\ NoForwardTo(r, name)
                       /\ Len(log'[r].executed) > Len(log[r].executed)
                              => Last(log'[r].executed) # name]_vars

\* with A forced open a request skipped A and was answered by B
C15_Witness ==
    \E r \in Reqs :
        /\ forcedStates["A"] = "open" /\ GetBreakerStatuses("A") = "FORCED OPEN"
        /\ req[r].pc = "done" /\ req[r].status = 200 /\ req[r].provider = "B"
        /\ log[r].selected = <<"A", "B">> /\ log[r].forwarded = <<"B">>
        /\ log[r].skipped = {"A"}
        /\ log[r].slept = <<>>

\* C20 (Full recovery on reset): right after ResetChaos, GetBreakerStatuses reports
\* "closed" for every provider.
\* The code does not keep this: ResetChaos clears the overrides and leaves the
\* breakers as they are.
C20_ResetClosesEveryBreaker ==
    [][ResetChaos =>
          \A name \in Range(providers) :
              GetBreakerStatuses(name)' = "closed"]_vars

RECURSIVE Pow2(_)
Pow2(n) == IF n = 0 THEN 1 ELSE 2 * Pow2(n - 1)

\* the k-th value of the backoff variable: 100 ms doubled k-1 times
Schedule(k) == InitialBackoff * Pow2(k - 1)

\* the iteration (1-based) in which request r picked provider name
Iteration(r, name) == CHOOSE i \in 1..Len(log[r].selected) : log[r].selected[i] = name

\* the i-th Execute of request r has returned an error
ExecFailed(r, i) ==
    \/ i < Len(log[r].executed)
    \/ req[r].pc \in {"backoff", "select", "picked", "execute"}
    \/ req[r].pc = "done" /\ req[r].status = 500

\* the executions of request r that have returned an error
FailedExecs(r) == {i \in 1..Len(log[r].executed) : ExecFailed(r, i)}

\* those among them made before the last iteration of the loop
FailedEarly(r) ==
    {i \in FailedExecs(r) : Iteration(r, log[r].executed[i]) < maxRetries}

\* the delays of request r follow the doubling schedule
DelaysDouble(r) == \A k \in 1..Len(log[r].slept) : log[r].slept[k] = Schedule(k)

\* C16 (Exponential backoff), as stated: the delays follow 100 * 2^(k-1), and a
\* request that was answered has slept once after each of its failed attempts, the
\* last one excepted when the request ended in the error.
C16_DelayAfterEveryFailureButLast ==
    \A r \in Reqs :
        req[r].pc = "done" /\ ~req[r].cancelled /\ FailedExecs(r) # {} =>
            /\ DelaysDouble(r)
            /\ Len(log[r].slept) =
                  Cardinality(FailedExecs(r)) - (IF req[r].status = 500 THEN 1 ELSE 0)

\* C16 (Exponential backoff), amended: the delays follow 100 * 2^(k-1) and there are
\* at most maxRetries - 1 of them (100 and 200: 400 is never slept); a delay follows
\* exactly the failed attempts made before the last iteration of the loop, also when
\* no forward follows it; the backoff value advances with the sleeps only, so a
\* skipped forced-open provider sleeps nothing and leaves it alone.
C16_BackoffSchedule ==
    \A r \in Reqs :
        ~req[r].cancelled /\ req[r].pc # "crashed" =>
            /\ DelaysDouble(r)
            /\ Len(log[r].slept) <= maxRetries - 1
            /\ req[r].backoff = Schedule(Len(log[r].slept) + 1)
            /\ Len(log[r].slept) =
                  Cardinality(FailedEarly(r)) - (IF req[r].pc = "backoff" THEN 1 ELSE 0)

\* two providers failed and were followed by 100 ms and 200 ms; the third one
\* selected was forced open and skipped in the last iteration, and the request ended
\* in the error
C16_Witness ==
    \E r \in Reqs :
        /\ req[r].pc = "done" /\ req[r].status = 500 /\ ~req[r].cancelled
        /\ Len(log[r].selected) = 3 /\ Len(log[r].forwarded) = 2
        /\ log[r].forwarded = SubSeq(log[r].selected, 1, 2)
        /\ log[r].slept = <<InitialBackoff, 2 * InitialBackoff>>
        /\ req[r].backoff = 4 * InitialBackoff

\* providers that are selection candidates, are not forced open and were never
\* forwarded to by request r
Unexhausted(r) ==
    {name \in Range(HealthyProviders(providers, StoreOk(r))) :
        forcedStates[name] # "open" /\ name \notin Range(log[r].forwarded)}

\* request r, not cancelled, is answered in this step with the 500 of a failed
\* ExecuteWithRetry
AnswersError(r) ==
    /\ req[r].pc # "done" /\ req'[r].pc = "done"
    /\ req'[r].status = 500 /\ ~req'[r].cancelled

\* C17 (Errors surface only on exhaustion), as stated: a non-cancelled request that
\* was answered 500 / -32603 has left no provider that is a candidate, is not forced
\* open and was never forwarded to.
C17_ErrorOnlyWhenPoolExhausted ==
    \A r \in Reqs :
        req[r].pc = "done" /\ req[r].status = 500 /\ ~req[r].cancelled =>
            Unexhausted(r) = {}

\* C17 (Errors surface only on exhaustion), amended: a non-cancelled request is
\* answered 500 (with code -32603 by HandleRPC, with the bare error by TestRPC) only when no attempt of it succeeded and either its loop has
\* used all maxRetries iterations or selection finds no untried candidate; providers
\* beyond the first maxRetries picks are never tried.
C17_ErrorOnlyOnGivingUp ==
    [][\A r \in Reqs :
          AnswersError(r) =>
              /\ req'[r].code = IF req[r].test THEN 0 ELSE -32603
              /\ \A i \in 1..Len(log'[r].counted) : log'[r].counted[i][2] = "error"
              /\ \/ /\ req'[r].err = "max retries exceeded"
                    /\ req[r].attempt = maxRetries
                    /\ Len(log[r].selected) = maxRetries
                 \/ /\ req'[r].err = "failed to select provider"
                    /\ req[r].attempt < maxRetries
                    /\ Candidates(req[r].tried, StoreOk(r)) = <<>>]_vars

\* three providers failed and the request was answered 500 while the fourth, a
\* candidate that is not forced open, was never picked
C17_Witness ==
    \E r \in Reqs :
        /\ req[r].pc = "done" /\ req[r].status = 500 /\ req[r].code = -32603
        /\ ~req[r].cancelled
        /\ Len(log[r].forwarded) = 3 /\ Cardinality(req[r].tried) = 3
        /\ Range(log[r].forwarded) = req[r].tried
        /\ \E name \in Unexhausted(r) : name \notin req[r].tried

\* in this step request r calls Execute on the breaker of provider name
ExecStep(r, name) ==
    /\ Len(log'[r].executed) = Len(log[r].executed) + 1
    /\ Last(log'[r].executed) = name

\* in this step request r calls ForwardRequest on provider name
ForwardStep(r, name) ==
    /\ Len(log'[r].forwarded) = Len(log[r].forwarded) + 1
    /\ Last(log'[r].forwarded) = name

\* C21 (Open breaker short-circuits): an execution through a breaker that is open with
\* its timeout pending fails with the open-breaker error, calls no ForwardRequest and
\* leaves the breaker open; the first execution after the timeout has elapsed moves
\* the breaker to half-open and is let through to the provider.
C21_OpenBreakerShortCircuits ==
    [][\A r \in Reqs, name \in Range(providers) :
          ExecStep(r, name) /\ cb[name].state = "open" =>
              IF ~cb[name].expired
              THEN /\ log'[r].forwarded = log[r].forwarded
                   /\ req'[r].pc # "forward"
                   /\ req'[r].lastErr = "ErrOpenState"
                   /\ cb'[name].state = "open"
              ELSE /\ ForwardStep(r, name)
                   /\ req'[r].pc = "forward"
                   /\ cb'[name].state = "half-open" /\ cb'[name].requests = 1]_vars

\* A's breaker is open and has rejected the request, which went on to B
C21_Witness ==
    \E r \in Reqs :
        /\ cb["A"].state = "open" /\ ~cb["A"].expired
        /\ log[r].executed = <<"A", "B">> /\ log[r].forwarded = <<"B">>
        /\ req[r].lastErr = "ErrOpenState"

\* in this step the forward of request r returns
OutcomeStep(r) == req[r].pc = "forward" /\ req'[r].pc \notin {"forward", "crashed"}

\* in this step the forward of request r returns a response: the breaker counts a
\* success and ExecuteWithRetry returns
SuccessStep(r) == OutcomeStep(r) /\ req'[r].pc \in {"cost", "sample"}

\* C22 (HalfOpen probing): in half-open an execution is let through to the provider
\* while fewer than MaxRequests have been, and is rejected without a forward after
\* that; the MaxRequests-th success in a row of the executions let through closes the
\* breaker with its counters at 0; a failure of one of them opens it again with a
\* fresh timeout.
C22_HalfOpenProbing ==
    [][\A r \in Reqs, name \in Range(providers) :
          /\ ExecStep(r, name) /\ currentState(cb[name]).state = "half-open" =>
                IF currentState(cb[name]).requests < MaxRequests
                THEN /\ ForwardStep(r, name)
                     /\ cb'[name].state = "half-open"
                     /\ cb'[name].requests = currentState(cb[name]).requests + 1
                     /\ cb'[name].requests <= MaxRequests
                ELSE /\ log'[r].forwarded = log[r].forwarded
                     /\ req'[r].lastErr = "ErrTooManyRequests"
                     /\ cb'[name] = cb[name]
          /\ (/\ OutcomeStep(r) /\ req[r].prov = name
              /\ cb[name].state = "half-open" /\ ~req[r].stale) =>
                IF SuccessStep(r)
                THEN IF cb[name].consecutiveSuccesses + 1 = MaxRequests
                     THEN cb'[name] = NewCircuitBreaker
                     ELSE /\ cb'[name].state = "half-open"
                          /\ cb'[name].consecutiveSuccesses = cb[name].consecutiveSuccesses + 1
                ELSE /\ cb'[name].state = "open" /\ ~cb'[name].expired
                     /\ cb'[name].requests = 0 /\ cb'[name].consecutiveFailures = 0]_vars

\* five executions were let through in half-open and all succeeded, the last one
\* while a sixth was rejected: the breaker is closed with its counters at 0
C22_Witness ==
    \E r, q \in Reqs :
        /\ cb["A"] = NewCircuitBreaker
        /\ req[r].pc = "done" /\ req[r].status = 200 /\ req[r].provider = "A"
        /\ req[q].lastErr = "ErrTooManyRequests" /\ log[q].forwarded = <<>>

\* the errors with which a breaker rejects an execution
Rejections == {"ErrOpenState", "ErrTooManyRequests"}

\* in this step the attempt of request r on provider name ends in an error and the
\* loop goes on as after a failure: the provider stays tried, the iteration is used
\* up, and the current backoff is slept unless the iteration was the last one
RetriedAsFailure(r, name) ==
    /\ name \in req'[r].tried
    /\ req'[r].lastErr # "nil"
    /\ req'[r].backoff = req[r].backoff
    /\ log'[r].slept = log[r].slept
    /\ IF req[r].attempt < maxRetries - 1
       THEN req'[r].pc = "backoff" /\ req'[r].attempt = req[r].attempt
       ELSE req'[r].pc = "select" /\ req'[r].attempt = maxRetries

\* C23 (Breaker rejection is retried like a transport failure): an execution that the
\* breaker rejects calls no ForwardRequest, leaves the rejection as the last error and
\* is followed by what follows a failed forward: the iteration is used up, the current
\* backoff is slept, and selection excludes the provider.
C23_RejectionRetriedAsFailure ==
    [][\A r \in Reqs, name \in Range(providers) :
          /\ ExecStep(r, name) /\ ~ForwardStep(r, name) =>
                /\ req'[r].lastErr \in Rejections
                /\ RetriedAsFailure(r, name)
          /\ (/\ OutcomeStep(r) /\ req[r].prov = name
              /\ ~SuccessStep(r) /\ ~req[r].cancelled) =>
                /\ req'[r].lastErr \notin Rejections
                /\ RetriedAsFailure(r, name)]_vars

\* the breakers of three providers rejected the three attempts of a request: no
\* forward, 100 ms and 200 ms slept, "max retries exceeded"
C23_Witness ==
    \E r \in Reqs :
        /\ req[r].pc = "done" /\ req[r].err = "max retries exceeded"
        /\ req[r].lastErr = "ErrOpenState"
        /\ Len(log[r].executed) = 3 /\ Cardinality(Range(log[r].executed)) = 3
        /\ log[r].forwarded = <<>>
        /\ log[r].slept = <<InitialBackoff, 2 * InitialBackoff>>

\* C24 (Only results are cached): no cache entry holds a response whose error field
\* is set, and a request that arrives after a dispatch of the same method and params
\* was answered with such a response is not answered from the cache.
\* The code does not keep this: HandleRPC stores every response that ExecuteWithRetry
\* returned without error, and a response with its error field set is one.
C24_OnlyResultsCached ==
    /\ \A k \in CacheKeys : cache[k].present => Unmarshal(cache[k].val).error = "nil"
    /\ \A r \in Reqs : log[r].lookup.made => log[r].lookup.resp.error = "nil"

\* in this step HandleRPC's call of StoreResponse for request r returns and the
\* request is answered
StoreStep(r) == req[r].pc = "store" /\ req'[r].pc = "done"

\* in this step HandleRPC's call of UpdateLatency for request r returns
SampleStep(r) == req[r].pc = "sample" /\ req'[r].pc \notin {"sample", "crashed"}

\* C25 (Non-cacheable requests never touch the cache): for a request whose method is
\* not cacheable (caching disabled, method not in the TTL table, TTL <= 0) the lookup
\* is a miss without error whether or not the store answers, and the dispatch that
\* follows leaves the cache as it was; every entry belongs to a method of the table
\* with a TTL > 0 and expires that TTL after it was written.
C25_NonCacheableNeverTouchesCache ==
    /\ [](\A r \in Reqs :
            log[r].lookup.made /\ ~Cacheable(req[r].rq.method) =>
                log[r].lookup.resp = NoResponse /\ log[r].lookup.err = "nil")
    /\ [](\A k \in CacheKeys :
            cache[k].present =>
                /\ caching.enabled /\ k[1] \in DOMAIN caching.methods
                /\ caching.methods[k[1]] > 0
                /\ cache[k].expireAt > 0)
    /\ [][\A r \in Reqs :
            StoreStep(r) /\ ~Cacheable(req[r].rq.method) => cache' = cache]_vars

\* the store was down when a request for a method with TTL 0 arrived: its lookup was
\* a miss without error, it was answered by the provider, and nothing is cached
C25_Witness ==
    \E r \in Reqs :
        /\ caching.enabled /\ req[r].rq.method = "getBlock"
        /\ log[r].lookup.made /\ ~log[r].lookup.ok /\ log[r].lookup.err = "nil"
        /\ req[r].pc = "done" /\ req[r].status = 200 /\ req[r].upstream = "result"
        /\ redisUp
        /\ \A k \in CacheKeys : ~cache[k].present

\* C26 (Cache errors are non-fatal): a request whose cache lookup failed goes on to
\* the dispatch as after a miss; a dispatch whose cache write fails (the store is down
\* or the request's context is gone) is answered 200 with the provider's response.
C26_CacheErrorsNonFatal ==
    [][\A r \in Reqs :
          /\ (LookupStep(r) /\ log'[r].lookup.err # "nil") =>
                req'[r].pc = "select" /\ req'[r].status = 0
          /\ (StoreStep(r) /\ ~StoreOk(r)) =>
                /\ req'[r].status = 200 /\ req'[r].err = "nil"
                /\ req[r].upstream \in Answering
                /\ req'[r].resp = UpstreamResponse(req[r].upstream, req[r].rq.id)
                /\ cache' = cache]_vars

\* a request for a cacheable method arrived and was answered during an outage: the
\* lookup failed, the provider's result was returned with 200 and the store call failed
C26_Witness ==
    \E r \in Reqs :
        /\ Cacheable(req[r].rq.method)
        /\ log[r].lookup.made /\ log[r].lookup.err = "redis"
        /\ req[r].pc = "done" /\ req[r].status = 200 /\ req[r].upstream = "result"
        /\ lastStore[<<req[r].rq.method, req[r].rq.params>>].called
        /\ ~lastStore[<<req[r].rq.method, req[r].rq.params>>].ok
        /\ ~cache[generateKey(req[r].rq)].present

\* a latency sample is written only by the UpdateLatency call of a dispatch that
\* succeeded, and only for the provider that answered it
SamplesOnlyOnAnswer ==
    \A name \in ProviderNames :
        latency'[name] # latency[name] /\ latency'[name] # NoSample =>
            \E r \in Reqs : SampleStep(r) /\ req[r].provider = name

\* C27 (Latency feedback), as stated: every dispatch that succeeded overwrites the
\* sample of the answering provider with the measured milliseconds and leaves the other
\* samples alone; nothing else writes a sample.
C27_LatencyFeedback ==
    [][/\ \A r \in Reqs :
            SampleStep(r) =>
                latency' = [latency EXCEPT ![req[r].provider] = req[r].ms]
       /\ SamplesOnlyOnAnswer]_vars

\* request r got past validation and the cache and its last forward was answered by
\* the provider recorded for it, before any cancellation
Dispatched(r) ==
    /\ req[r].test \/ (log[r].body = "json" /\ ValidRequest(req[r].rq))
    /\ req[r].test \/ (log[r].lookup.made /\ ~CacheHit(log[r].lookup))
    /\ log[r].forwarded # <<>> /\ req[r].provider = Last(log[r].forwarded)
    /\ req[r].upstream \in Answering
    /\ req[r].ms \in DispatchMs

\* in this step request r is answered without UpdateLatency having been called for
\* it: rejected by validation, answered from the cache, or failed
EndsUnsampled(r) ==
    /\ req[r].pc \notin {"done", "store", "cost"} /\ req'[r].pc = "done"

\* C27 (Latency feedback), amended: UpdateLatency is called for the requests whose
\* dispatch succeeded and for no other; it overwrites the sample of the answering
\* provider with the measured milliseconds and leaves the other samples alone when
\* the store accepts the write, and leaves every sample as it was when the store is
\* down or the request's context is gone; a request that is rejected, answered from
\* the cache, or fails ends without a write, and nothing else writes a sample (a
\* sample disappears when its TTL runs out).
C27_LatencyFeedbackWhenStoreAnswers ==
    [][/\ \A r \in Reqs :
            /\ SampleStep(r) =>
                  /\ Dispatched(r)
                  /\ IF redisUp /\ ~req[r].cancelled
                     THEN latency' = [latency EXCEPT ![req[r].provider] = req[r].ms]
                     ELSE latency' = latency
            /\ EndsUnsampled(r) =>
                  /\ latency' = latency
                  /\ req'[r].status # 200 \/ CacheHit(log'[r].lookup)
            /\ (req[r].pc # "done" /\ req'[r].pc = "done" /\ ~EndsUnsampled(r)) =>
                  req'[r].status = 200 /\ Dispatched(r)
       /\ SamplesOnlyOnAnswer]_vars

\* a request was answered by A after B had failed and the client went away before
\* UpdateLatency: A's sample of 150 ms is what it was; B's sample is the measured
\* 50 ms that an earlier request, answered by B, has written
C27_Witness ==
    \E r \in Reqs :
        /\ req[r].pc = "done" /\ req[r].status = 200 /\ req[r].provider = "A"
        /\ log[r].forwarded = <<"B", "A">> /\ req[r].cancelled
        /\ log[r].sampleBefore = 150 /\ latency["A"] = 150
        /\ latency["B"] \in DispatchMs /\ redisUp /\ events = MaxFeedbackEvents

\* the first provider of the pool that is not in the exclusion set
FirstNotIn(exclude) ==
    providers[CHOOSE i \in DOMAIN providers :
                 /\ providers[i] \notin exclude
                 /\ \A j \in 1..(i - 1) : providers[j] \in exclude]

\* in this step a selection returns a provider to request r
PickStep(r) == Len(log'[r].selected) = Len(log[r].selected) + 1

\* the positions of a request inside a selection
SelectionPcs == {"select"} \cup NextPcs

\* every read of the store that the selection ending in this step made for request r
\* has failed
ReadsFailed(r) ==
    IF req[r].pc = "select" THEN ~StoreOk(r) ELSE ~req'[r].readOk

\* C28 (Store unavailability is tolerated): when the reads of the state store fail,
\* a selection returns a provider of the pool that is not excluded, whatever
\* snapshots and samples are stored (Next, which has no exclusion set, returns the
\* first provider of the pool and leaves the cursor), and fails only when every
\* provider is excluded; it does not crash; a dispatch answered meanwhile is answered
\* 200 with the provider's response, the failed writes leaving samples and snapshots
\* as they were.
C28_StoreOutageTolerated ==
    [][\A r \in Reqs :
          /\ ReadsFailed(r) =>
              /\ PickStep(r) =>
                    /\ Last(log'[r].selected) \in Range(providers) \ req[r].tried
                    /\ req[r].pc \in NextPcs =>
                          /\ Last(log'[r].selected) = FirstNotIn(req[r].tried)
                          /\ current' = current
              /\ (req[r].pc \in SelectionPcs /\ req'[r].pc = "done") =>
                    /\ req'[r].err # "panic: integer divide by zero"
                    /\ req'[r].err \in {"failed to select provider", "no providers available"}
                          => Range(providers) \subseteq req[r].tried
          /\ ~redisUp =>
              /\ SampleStep(r) =>
                    /\ req'[r].pc \in {"store", "cost"} /\ req'[r].err = "nil"
                    /\ req'[r].resp = req[r].resp
                    /\ latency' = latency /\ health' = health
              /\ StoreStep(r) =>
                    /\ req'[r].status = 200 /\ req'[r].err = "nil"
                    /\ req'[r].resp = UpstreamResponse(req[r].upstream, req[r].rq.id)
                    /\ latency' = latency /\ health' = health]_vars

\* every provider has an unhealthy snapshot and B the lowest sample; the store was down
\* when the request selected, so A was picked, and A answered
C28_Witness ==
    \E r \in Reqs :
        /\ ~redisUp
        /\ \A name \in Range(providers) : health[name] = "unhealthy"
        /\ latency["A"] = 200 /\ latency["B"] = 50
        /\ log[r].pickedUnhealthy /\ ~log[r].pickedUnhealthyRead
        /\ log[r].selected = <<"A">> /\ log[r].lookup.made
        /\ req[r].pc = "done" /\ req[r].status = 200 /\ req[r].provider = "A"

\* C29 (Cursor discipline): every call of Next that returns a provider advances the
\* round-robin cursor by one modulo the number of candidates of that call.
\* The code does not keep this: Next moves the cursor in its fallback only, and there
\* modulo the size of the pool.
C29_CursorAdvancesOnEverySelection ==
    [][\A r \in Reqs :
          NextReturns(r) => current' = (current + 1) % Len(req[r].hp)]_vars

\* provider name is the first choice of a request
FirstChoice(name) ==
    \E r \in Reqs : log[r].selected # <<>> /\ log[r].selected[1] = name

\* no provider has a latency sample
NoSamples == \A name \in Range(providers) : latency[name] = NoSample

\* C30 (Eventual fairness of selection): while no candidate ever obtains a latency
\* sample, every provider of the pool is the first choice of a request again and again.
\* The code does not keep this: the discovery loop of Next returns the first provider
\* without a sample every time and leaves the cursor where it is.
C30_EveryCandidateFirstInfinitelyOften ==
    []NoSamples => \A name \in Range(Pool(3)) : []<>FirstChoice(name)

\* a read of the state store by goroutine r is in progress
StoreReadInProgress(r) == req[r].pc \in {"filter", "discover", "least"}

\* C31 (No I/O under the pool mutex): no goroutine holds the provider pool's mutex
\* while a read of the state store (health snapshot or latency sample) is in
\* progress.  The code does not keep this: Next locks the mutex first and reads the
\* store for every provider before the deferred Unlock.
C31_NoStoreReadUnderPoolMutex ==
    \A r \in Reqs : ~(mu = r /\ StoreReadInProgress(r))

\* C32 (Override map is synchronised): the reads of the forced-state map and the
\* writes to it are mutually exclusive: the map is never read while a write of it is
\* under way, and no two writes are under way at once.  The code does not keep this:
\* RetryHandler has no lock, and the handlers run on separate goroutines.
C32_OverrideMapSynchronised ==
    /\ \A r \in Reqs : ~log[r].racedRead
    /\ Cardinality(writing) <= 1

\* C33 (Health snapshot timestamps are monotonic per provider): the LastCheck of the
\* snapshot stored under health:<name> never decreases from one write to the next,
\* also when two probes of the provider overlap.  The code does not keep this: the
\* probe that was stamped first can write last.
C33_LastCheckMonotonic ==
    [][\A name \in Range(providers) : lastCheck'[name] >= lastCheck[name]]_vars

\* the checkProvider goroutine id of provider name is running
InFlight(name, id) == \E i \in DOMAIN probes[name] : probes[name][i].id = id

\* C34 (Probe fan-out): the probes of different providers run independently: every
\* probe of a provider whose upstream answers completes, with its snapshot written
\* unless Stop was called, and the loop starts the next cycle once the ticker has
\* fired (within the model's bound on the probes in flight), also while the probes
\* of another provider hang and never return.
C34_ProbeFanOut ==
    /\ \A name \in Range(Pool(2)), id \in 1..MaxInFlight :
          (answering[name] /\ InFlight(name, id))
              ~> (/\ ~InFlight(name, id)
                  /\ health[name] # "none" \/ monitor.cancelled)
    /\ (monitor.tick /\ Room /\ ~monitor.exited) ~> (~monitor.tick \/ monitor.exited)

\* the upstream of A does not answer and both probes of A hang, the one of Start and
\* the one of the next cycle; B's probe of the first cycle has written its snapshot
\* and B's probe of the second cycle has returned and is about to write
C34_Witness ==
    /\ ~answering["A"] /\ answering["B"]
    /\ Len(probes["A"]) = 2
    /\ \A i \in DOMAIN probes["A"] : probes["A"][i].pc = "probing"
    /\ health["B"] = "healthy" /\ health["A"] = "none"
    /\ Len(probes["B"]) = 1 /\ probes["B"][1].pc = "stamped"

\* a step that starts a probe cycle: checkAll runs
CycleStarts == \E name \in Range(providers) : Len(probes'[name]) > Len(probes[name])

\* a step that writes a health snapshot (an expiry removes one)
SnapshotWritten ==
    \/ \E name \in ProviderNames : health'[name] # health[name] /\ health'[name] # "none"
    \/ lastCheck' # lastCheck

\* C35 (Prober shutdown), as claimed: after Stop the probe loop eventually exits, no
\* probe cycle is started after Stop and no health snapshot is written after Stop.
\* The second part does not hold: the select of the loop can take a waiting tick
\* although the context is cancelled.
C35_ProberShutdown ==
    /\ [](monitor.cancelled => <>monitor.exited)
    /\ [][monitor.cancelled => ~CycleStarts]_vars
    /\ [][monitor.cancelled => ~SnapshotWritten]_vars

\* C35 (Prober shutdown), amended: after Stop the probe loop eventually exits and no
\* health snapshot is written after Stop, neither by the probes in flight at the time
\* of Stop nor by a cycle started after it; a cycle starts after Stop only from a
\* tick that is waiting, and never after the loop has exited.
C35_ProberShutdownWritesNothing ==
    /\ [](monitor.cancelled => <>monitor.exited)
    /\ [][monitor.cancelled => ~SnapshotWritten]_vars
    /\ [][(monitor.cancelled /\ CycleStarts) => (monitor.tick /\ ~monitor.exited)]_vars

\* Stop was called while the probe of A's first cycle was in flight: the loop has
\* exited, the probe has ended, and nothing was written although the store was up
\* all the time
C35_Witness ==
    /\ monitor.exited
    /\ probes["A"] = <<>>
    /\ health["A"] = "none"
    /\ redisUp
    /\ events = MaxMonitorEvents

\* selection leaves provider name out because of its stored snapshot (the request's
\* context is live)
Excluded(name) == ~IsHealthy(name, redisUp)

\* the prober is started and is never stopped
ProberKeepsRunning == <>monitor.started /\ []~monitor.cancelled

\* C36 (Automatic recovery of a provider), as claimed: while the prober keeps running,
\* a provider with an unhealthy snapshot that answers its probes from some time on
\* eventually has a healthy snapshot and is a selection candidate, and a provider that
\* does not answer its probes from some time on is eventually excluded from
\* selection.  This needs the state store: while the store is down no snapshot is
\* written and every provider is a candidate.
C36_AutomaticRecovery ==
    ProberKeepsRunning =>
        \A name \in Range(Pool(1)) :
            /\ (<>(health[name] = "unhealthy") /\ <>[]answering[name])
                  => <>[](health[name] = "healthy" /\ ~Excluded(name))
            /\ <>[]~answering[name] => <>[]Excluded(name)

\* C36 (Automatic recovery of a provider), amended: the same when the state store
\* answers from some time on.
C36_AutomaticRecoveryWhenStoreAnswers ==
    (ProberKeepsRunning /\ <>[]redisUp) =>
        \A name \in Range(Pool(1)) :
            /\ (<>(health[name] = "unhealthy") /\ <>[]answering[name])
                  => <>[](health[name] = "healthy" /\ ~Excluded(name))
            /\ <>[]~answering[name] => <>[]Excluded(name)

\* A is excluded by an unhealthy snapshot, answers again, and a probe that found it
\* healthy is about to write
C36_Witness ==
    /\ health["A"] = "unhealthy"
    /\ Excluded("A")
    /\ answering["A"]
    /\ ~monitor.cancelled
    /\ \E i \in DOMAIN probes["A"] : probes["A"][i].pc = "stamped" /\ probes["A"][i].healthy

\* ExecuteWithRetry of request r has returned "max retries exceeded, last error: ..."
ExhaustedError(r) == req[r].pc = "done" /\ req[r].err = "max retries exceeded"

\* C37 (Exhaustion implies an attempt): when ExecuteWithRetry returns the 'max
\* retries exceeded' error, at least one provider execution was attempted in the
\* request and the reported last error is that attempt's error.  The code does not
\* keep this: a skipped forced-open provider uses up an iteration of the loop.
C37_ExhaustionImpliesAttempt ==
    \A r \in Reqs :
        ExhaustedError(r) => (log[r].executed # <<>> /\ req[r].lastErr # "nil")

\* the forward of request r returns in this step, after r's context was cancelled
CancelledForwardEnds(r) ==
    OutcomeStep(r) /\ req[r].cancelled

\* C38 (Client cancellation does not penalise providers): a forward that ends because
\* the caller's context was cancelled does not increment the consecutive-failure
\* counter of the provider's breaker and does not open the breaker.  The code does
\* not keep this: the breaker counts every error of the forward as a failure.
C38_CancellationNotCounted ==
    [][\A r \in Reqs :
          CancelledForwardEnds(r) =>
              /\ cb'[req[r].prov].consecutiveFailures <= cb[req[r].prov].consecutiveFailures
              /\ cb[req[r].prov].state = "closed" => cb'[req[r].prov].state = "closed"]_vars

\* a step of the operator's override endpoints: a write of the override map starts
\* or lands
OverrideStep == forcedStates' # forcedStates \/ writing' # writing

\* C39 (Override operations leave everything else unchanged): TripProvider(p) changes
\* only the override entry of p and ResetChaos only the override map; neither changes
\* a breaker's state, counters or deadline, the pool and its cursor, a health snapshot,
\* a latency sample, a cache entry or a request in flight, and TripProvider(p) leaves
\* the override of every other provider as it was.
C39_OverrideFrame ==
    [][OverrideStep =>
          /\ UNCHANGED <<providers, current, redisUp, health, latency, lastCheck, cb,
                         failRun, caching, cache, now, lastStore, req, log>>
          /\ \/ forcedStates' = forcedStates
             \/ forcedStates' = [name \in ProviderNames |-> ""]
             \/ \E p \in Range(providers) :
                   forcedStates' = [forcedStates EXCEPT ![p] = "open"]]_vars

\* a provider whose breaker has counted a failure was forced open afterwards, while
\* another provider's override is in place
C39_Witness ==
    \E p, q \in Range(providers) :
        /\ p # q
        /\ cb[p].consecutiveFailures > 0
        /\ forcedStates[p] = "open"
        /\ forcedStates[q] = "open"

\* C40 (Status agrees with selection): for every provider and every state of the store
\* the healthy flag that GetSystemStatus reports equals the verdict of the health
\* filter of pool selection.  The code does not keep this: without a snapshot, or when
\* the read fails, selection keeps the provider while the status reports it unhealthy.
C40_StatusAgreesWithSelection ==
    \A name \in Range(providers) :
        GetSystemStatus(name, redisUp).healthy = IsHealthy(name, redisUp)

=============================================================================
